---- MODULE Spec2Model ----
(***************************************************************************)
(* A model of html2md: the tokenizer (src/src/tokenize.rs), the parser     *)
(* (src/src/parse.rs), the restructurer (src/src/restruct.rs), the         *)
(* renderer (src/src/render.rs) and the pipeline `convert` of              *)
(* src/src/main.rs.                                                        *)
(*                                                                         *)
(* A Rust String is the sequence of its characters, each a one-character   *)
(* TLA+ string.  A tag name, which the code only ever compares with        *)
(* literals, is one TLA+ string built character by character with \o.      *)
(***************************************************************************)
EXTENDS Integers, Sequences, FiniteSets, TLC

VARIABLES
    source,                 \* convert's argument; Tokenizer.chars iterates over it
    pos,                    \* index in source of the character chars.peek() returns
    pc,                     \* where the pipeline stands
    tokens,                 \* tokenize's `tokens`, then Parser's input
    token_pos,              \* index in tokens of the token Parser.tokens.peek() returns
    beginning_with_slash,   \* read_tag's local, live while read_attributes loops
    name,                   \* read_tag's local, live while read_attributes loops
    attributes,             \* read_attributes' local map
    error,                  \* the Err convert returns, <<>> while there is none
    original_node,          \* convert's original_node (the parser's tree)
    node,                   \* convert's node (the restructured tree)
    context,                \* Renderer.ctx.items, the tags of the context stack
    markdown,               \* convert's markdown
    depth                   \* the value of Element::list_depth for node

vars == <<source, pos, pc, tokens, token_pos, beginning_with_slash, name, attributes,
          error, original_node, node, context, markdown, depth>>

(***************************************************************************)
(* Bounds of the model.                                                    *)
(***************************************************************************)
MaxLen == 4

(***************************************************************************)
(* Characters.                                                             *)
(***************************************************************************)
UpperCase == <<"A", "B", "C", "D", "E", "F", "G", "H", "I", "J", "K", "L", "M",
               "N", "O", "P", "Q", "R", "S", "T", "U", "V", "W", "X", "Y", "Z">>

LowerCase == <<"a", "b", "c", "d", "e", "f", "g", "h", "i", "j", "k", "l", "m",
               "n", "o", "p", "q", "r", "s", "t", "u", "v", "w", "x", "y", "z">>

Digits == {"0", "1", "2", "3", "4", "5", "6", "7", "8", "9"}

Range(s) == {s[i] : i \in 1..Len(s)}

is_ascii_whitespace(c) == c \in {" ", "\t", "\n", "\f", "\r"}

is_ascii_alphanumeric(c) == c \in Range(UpperCase) \cup Range(LowerCase) \cup Digits

\* char::is_alphanumeric; the model's characters are all ASCII
is_alphanumeric(c) == is_ascii_alphanumeric(c)

\* char-wise to_ascii_lowercase / to_lowercase
to_lowercase(c) ==
    IF c \in Range(UpperCase)
    THEN LowerCase[CHOOSE i \in 1..Len(UpperCase) : UpperCase[i] = c]
    ELSE c

str_to_lowercase(s) == [i \in 1..Len(s) |-> to_lowercase(s[i])]

(***************************************************************************)
(* ast.rs                                                                  *)
(***************************************************************************)
AttributeMap_new == [n \in {} |-> <<>>]

AttributeMap_insert(m, k, v) ==
    [n \in (DOMAIN m) \cup {k} |-> IF n = k THEN v ELSE m[n]]

Token_Sgml == [type |-> "Sgml"]

Token_Text(content) == [type |-> "Text", content |-> content]

Token_Tag(n, kind, attrs) ==
    [type |-> "Tag", name |-> n, kind |-> kind, attributes |-> attrs]

is_void_element(tag_name) ==
    tag_name \in {"area", "base", "br", "col", "embed", "hr", "img", "input",
                  "link", "meta", "param", "source", "track", "wbr"}

(***************************************************************************)
(* tokenize.rs.  Every reader takes the string s and the position p of the *)
(* next character and returns the position it leaves the iterator at.      *)
(***************************************************************************)
NoError == <<>>

UnexpectedEOF == <<"TokenizeError", "UnexpectedEOF">>

UnexpectedChar(expected, actual) == <<"TokenizeError", "UnexpectedChar", expected, actual>>

Malformed == <<"TokenizeError", "Malformed">>

is_eof(s, p) == p > Len(s)

RECURSIVE skip_whitespaces(_, _)
skip_whitespaces(s, p) ==
    IF p <= Len(s) /\ is_ascii_whitespace(s[p])
    THEN skip_whitespaces(s, p + 1)
    ELSE p

\* whether consume_char(expected) consumes; the caller advances by one when it does
consume_char(s, p, expected) == p <= Len(s) /\ s[p] = expected

\* expect_char always consumes one character when there is one
expect_char(s, p, expected) ==
    IF p > Len(s) THEN [err |-> UnexpectedEOF, pos |-> p]
    ELSE IF s[p] = expected THEN [err |-> NoError, pos |-> p + 1]
    ELSE [err |-> UnexpectedChar(expected, s[p]), pos |-> p + 1]

\* read_sgml, were the end of the input to close the declaration
read_sgml_to_end(s, p) ==
    IF \E j \in p..Len(s) : s[j] = ">"
    THEN [err |-> NoError, pos |-> 1 + CHOOSE j \in p..Len(s) :
                                        s[j] = ">" /\ \A k \in p..(j - 1) : s[k] # ">"]
    ELSE [err |-> NoError, pos |-> Len(s) + 1]

RECURSIVE read_sgml(_, _)
read_sgml(s, p) ==
    IF p > Len(s) THEN [err |-> UnexpectedEOF, pos |-> p]
    ELSE IF s[p] = ">" THEN [err |-> NoError, pos |-> p + 1]
    ELSE read_sgml(s, p + 1)

RECURSIVE read_tag_name_from(_, _, _)
read_tag_name_from(s, p, acc) ==
    IF p > Len(s) THEN [err |-> UnexpectedEOF, pos |-> p, name |-> acc]
    ELSE IF is_alphanumeric(s[p])
         THEN read_tag_name_from(s, p + 1, acc \o to_lowercase(s[p]))
         ELSE [err |-> NoError, pos |-> p, name |-> acc]

read_tag_name(s, p) == read_tag_name_from(s, p, "")

RECURSIVE read_attribute_name_from(_, _, _)
read_attribute_name_from(s, p, acc) ==
    IF p > Len(s) THEN [err |-> UnexpectedEOF, pos |-> p, result |-> acc]
    ELSE IF is_ascii_alphanumeric(s[p]) \/ s[p] = "-" \/ s[p] = "_"
         THEN read_attribute_name_from(s, p + 1, Append(acc, s[p]))
         ELSE [err |-> NoError, pos |-> p, result |-> str_to_lowercase(acc)]

read_attribute_name(s, p) == read_attribute_name_from(s, p, <<>>)

RECURSIVE read_quoted(_, _, _)
read_quoted(s, p, acc) ==
    IF p > Len(s) THEN [err |-> UnexpectedEOF, pos |-> p, result |-> acc]
    ELSE IF s[p] = "\"" THEN [err |-> NoError, pos |-> p + 1, result |-> str_to_lowercase(acc)]
    ELSE read_quoted(s, p + 1, Append(acc, s[p]))

read_attribute_value(s, p) ==
    LET q == expect_char(s, p, "\"")
    IN  IF q.err # NoError
        THEN [err |-> q.err, pos |-> q.pos, result |-> <<>>]
        ELSE read_quoted(s, q.pos, <<>>)

RECURSIVE read_text_end(_, _)
read_text_end(s, p) ==
    IF p <= Len(s) /\ s[p] # "<" THEN read_text_end(s, p + 1) ELSE p

\* read_text: the content and the position after it
read_text(s, p) ==
    LET e == read_text_end(s, p)
    IN  [pos |-> e, token |-> Token_Text(SubSeq(s, p, e - 1))]

(***************************************************************************)
(* One iteration of the loop of read_attributes, from position p with the  *)
(* map attrs.  outcome is "break" (the loop is left, the tag is closed),   *)
(* "continue" (the loop goes round again) or "err" (`?` returns err).      *)
(***************************************************************************)
read_attributes_iteration(s, p, attrs) ==
    LET p1 == skip_whitespaces(s, p)
    IN  IF consume_char(s, p1, "/")
        THEN LET p2 == skip_whitespaces(s, p1 + 1)
                 e  == expect_char(s, p2, ">")
             IN  [outcome |-> IF e.err = NoError THEN "break" ELSE "err",
                  err |-> e.err, pos |-> e.pos, attributes |-> attrs,
                  ending_with_slash |-> TRUE]
        ELSE IF consume_char(s, p1, ">")
        THEN [outcome |-> "break", err |-> NoError, pos |-> p1 + 1,
              attributes |-> attrs, ending_with_slash |-> FALSE]
        ELSE LET n == read_attribute_name(s, p1)
             IN  IF n.err # NoError
                 THEN [outcome |-> "err", err |-> n.err, pos |-> n.pos,
                       attributes |-> attrs, ending_with_slash |-> FALSE]
                 ELSE IF consume_char(s, n.pos, "=")
                 THEN LET v == read_attribute_value(s, n.pos + 1)
                      IN  IF v.err # NoError
                          THEN [outcome |-> "err", err |-> v.err, pos |-> v.pos,
                                attributes |-> attrs, ending_with_slash |-> FALSE]
                          ELSE [outcome |-> "continue", err |-> NoError, pos |-> v.pos,
                                attributes |-> AttributeMap_insert(attrs, n.result, v.result),
                                ending_with_slash |-> FALSE]
                 ELSE [outcome |-> "continue", err |-> NoError, pos |-> n.pos,
                       attributes |-> AttributeMap_insert(attrs, n.result, n.result),
                       ending_with_slash |-> FALSE]

(***************************************************************************)
(* read_tag once read_attributes has returned Ok((attrs, ending)): the     *)
(* token decided from the name and the two slashes.                        *)
(***************************************************************************)
\* read_tag, without the test of name.is_empty()
read_tag_result_unnamed(n, attrs, beginning, ending) ==
    IF is_void_element(n)
    THEN IF beginning
         THEN [err |-> Malformed, token |-> Token_Text(<<>>)]
         ELSE [err |-> NoError, token |-> Token_Tag(n, "Void", attrs)]
    ELSE IF ending
         THEN [err |-> Malformed, token |-> Token_Text(<<>>)]
         ELSE IF beginning
         THEN [err |-> NoError, token |-> Token_Tag(n, "Close", attrs)]
         ELSE [err |-> NoError, token |-> Token_Tag(n, "Open", attrs)]

\* read_tag, were the rule of the non-void names applied to the slashes of every name
read_tag_result_slashes_first(n, attrs, beginning, ending) ==
    IF n = "" THEN [err |-> Malformed, token |-> Token_Text(<<>>)]
    ELSE IF ending
    THEN [err |-> Malformed, token |-> Token_Text(<<>>)]
    ELSE IF beginning
    THEN [err |-> NoError, token |-> Token_Tag(n, "Close", attrs)]
    ELSE IF is_void_element(n)
    THEN [err |-> NoError, token |-> Token_Tag(n, "Void", attrs)]
    ELSE [err |-> NoError, token |-> Token_Tag(n, "Open", attrs)]

read_tag_result(n, attrs, beginning, ending) ==
    IF n = "" THEN [err |-> Malformed, token |-> Token_Text(<<>>)]
    ELSE IF is_void_element(n)
    THEN IF beginning
         THEN [err |-> Malformed, token |-> Token_Text(<<>>)]
         ELSE [err |-> NoError, token |-> Token_Tag(n, "Void", attrs)]
    ELSE IF ending
         THEN [err |-> Malformed, token |-> Token_Text(<<>>)]
         ELSE IF beginning
         THEN [err |-> NoError, token |-> Token_Tag(n, "Close", attrs)]
         ELSE [err |-> NoError, token |-> Token_Tag(n, "Open", attrs)]

(***************************************************************************)
(* The match of tokenize on the result of read_token: what the loop does   *)
(* with Ok(token) and with Err(e).  "continue" goes round the loop,        *)
(* "return" leaves tokenize with Err(err).                                 *)
(***************************************************************************)
\* the match of tokenize, were Malformed returned like the other errors
tokenize_match_strict(toks, r) ==
    IF r.err = NoError /\ r.token = Token_Sgml
    THEN [next |-> "continue", tokens |-> toks, err |-> NoError]
    ELSE IF r.err = NoError
    THEN [next |-> "continue", tokens |-> Append(toks, r.token), err |-> NoError]
    ELSE [next |-> "return", tokens |-> toks, err |-> r.err]

tokenize_match(toks, r) ==
    IF r.err = NoError /\ r.token = Token_Sgml
    THEN [next |-> "continue", tokens |-> toks, err |-> NoError]
    ELSE IF r.err = NoError
    THEN [next |-> "continue", tokens |-> Append(toks, r.token), err |-> NoError]
    ELSE IF r.err = Malformed
    THEN [next |-> "continue", tokens |-> toks, err |-> NoError]
    ELSE [next |-> "return", tokens |-> toks, err |-> r.err]

(***************************************************************************)
(* parse.rs.  Every rule takes the token sequence toks and the index i of  *)
(* the token tokens.peek() returns, and returns the index it stops at.     *)
(* parse.rs's Element has no attributes field: the nodes it builds carry   *)
(* the empty map.                                                          *)
(***************************************************************************)
ParseUnexpectedEOF == <<"ParseError", "UnexpectedEOF">>

ParseUnexpectedToken == <<"ParseError", "UnexpectedToken">>

Node_Text(content) == [type |-> "Text", content |-> content]

Node_Element(tag, attrs, children) ==
    [type |-> "Element", tag |-> tag, attributes |-> attrs, children |-> children]

NoNode == [type |-> "None"]

expect_open_tag_with_name(toks, i, n) ==
    IF i > Len(toks) THEN [err |-> ParseUnexpectedEOF, pos |-> i]
    ELSE IF toks[i].type = "Tag" /\ toks[i].name = n /\ toks[i].kind = "Open"
    THEN [err |-> NoError, pos |-> i + 1]
    ELSE [err |-> ParseUnexpectedToken, pos |-> i + 1]

\* expect_close_tag_with_name, were the name of the Close token not compared
expect_close_tag(toks, i, n) ==
    IF i > Len(toks) THEN [err |-> ParseUnexpectedEOF, pos |-> i]
    ELSE IF toks[i].type = "Tag" /\ toks[i].kind = "Close"
    THEN [err |-> NoError, pos |-> i + 1]
    ELSE [err |-> ParseUnexpectedToken, pos |-> i + 1]

expect_close_tag_with_name(toks, i, n) ==
    IF i > Len(toks) THEN [err |-> ParseUnexpectedEOF, pos |-> i]
    ELSE IF toks[i].type = "Tag" /\ toks[i].name = n /\ toks[i].kind = "Close"
    THEN [err |-> NoError, pos |-> i + 1]
    ELSE [err |-> ParseUnexpectedToken, pos |-> i + 1]

expect_text(toks, i) ==
    IF i > Len(toks) THEN [err |-> ParseUnexpectedEOF, pos |-> i, node |-> NoNode]
    ELSE IF toks[i].type = "Text"
    THEN [err |-> NoError, pos |-> i + 1, node |-> Node_Text(toks[i].content)]
    ELSE [err |-> ParseUnexpectedToken, pos |-> i + 1, node |-> NoNode]

ParseFailed(err, p) == [err |-> err, pos |-> p, node |-> NoNode]

RECURSIVE expect_element(_, _)
RECURSIVE element_or_text_nodes_from(_, _, _)
RECURSIVE element_nodes_from(_, _, _)

element_or_text_nodes(toks, i) == element_or_text_nodes_from(toks, i, <<>>)

element_nodes(toks, i) == element_nodes_from(toks, i, <<>>)

\* Ok(Node::Element(Element::new_with_children(tag, children))) once the
\* Close token has been expected
element_closed(tag, nodes, close) ==
    IF close.err # NoError
    THEN ParseFailed(close.err, close.pos)
    ELSE [err |-> NoError, pos |-> close.pos,
          node |-> Node_Element(tag, AttributeMap_new, nodes)]

\* `let children = ...?; let _close_tag = self.expect_close_tag_with_name(tag)?;`
element_with_children(toks, tag, children) ==
    IF children.err # NoError
    THEN ParseFailed(children.err, children.pos)
    ELSE element_closed(tag, children.nodes,
                        expect_close_tag_with_name(toks, children.pos, tag))

expect_element(toks, i) ==
    IF i > Len(toks) THEN ParseFailed(ParseUnexpectedEOF, i)
    ELSE IF toks[i].type # "Tag" THEN ParseFailed(ParseUnexpectedToken, i + 1)
    ELSE IF toks[i].kind = "Open"
    THEN element_with_children(toks, toks[i].name, element_or_text_nodes(toks, i + 1))
    ELSE IF toks[i].kind = "Void"
    THEN [err |-> NoError, pos |-> i + 1,
          node |-> Node_Element(toks[i].name, AttributeMap_new, <<>>)]
    ELSE ParseFailed(ParseUnexpectedToken, i + 1)

\* the loop, were the node put in front of the nodes read before it
element_or_text_nodes_push_front(toks, nodes, r) ==
    IF r.err # NoError
    THEN [err |-> r.err, pos |-> r.pos, nodes |-> nodes]
    ELSE element_or_text_nodes_from(toks, r.pos, <<r.node>> \o nodes)

\* `let node = ...?; nodes.push(node);` and round the loop again
element_or_text_nodes_push(toks, nodes, r) ==
    IF r.err # NoError
    THEN [err |-> r.err, pos |-> r.pos, nodes |-> nodes]
    ELSE element_or_text_nodes_from(toks, r.pos, Append(nodes, r.node))

element_or_text_nodes_from(toks, i, nodes) ==
    IF i > Len(toks) THEN [err |-> ParseUnexpectedEOF, pos |-> i, nodes |-> nodes]
    ELSE IF toks[i].type = "Tag"
    THEN IF toks[i].kind \in {"Open", "Void"}
         THEN element_or_text_nodes_push(toks, nodes, expect_element(toks, i))
         ELSE [err |-> NoError, pos |-> i, nodes |-> nodes]
    ELSE IF toks[i].type = "Text"
    THEN element_or_text_nodes_push(toks, nodes, expect_text(toks, i))
    ELSE [err |-> ParseUnexpectedToken, pos |-> i, nodes |-> nodes]

element_nodes_push(toks, nodes, r) ==
    IF r.err # NoError
    THEN [err |-> r.err, pos |-> r.pos, nodes |-> nodes]
    ELSE element_nodes_from(toks, r.pos, Append(nodes, r.node))

element_nodes_from(toks, i, nodes) ==
    IF i > Len(toks) THEN [err |-> ParseUnexpectedEOF, pos |-> i, nodes |-> nodes]
    ELSE IF toks[i].type = "Tag" /\ toks[i].kind \in {"Open", "Void"}
    THEN element_nodes_push(toks, nodes, expect_element(toks, i))
    ELSE [err |-> NoError, pos |-> i, nodes |-> nodes]

head_opened(toks, open_tag) ==
    IF open_tag.err # NoError
    THEN ParseFailed(open_tag.err, open_tag.pos)
    ELSE element_with_children(toks, "head", element_nodes(toks, open_tag.pos))

head(toks, i) == head_opened(toks, expect_open_tag_with_name(toks, i, "head"))

body_opened(toks, open_tag) ==
    IF open_tag.err # NoError
    THEN ParseFailed(open_tag.err, open_tag.pos)
    ELSE element_with_children(toks, "body", element_or_text_nodes(toks, open_tag.pos))

body(toks, i) == body_opened(toks, expect_open_tag_with_name(toks, i, "body"))

\* html, step by step: each `?` returns the error of the step before
html_closed(h, b, close) ==
    element_closed("html", <<h.node, b.node>>, close)

html_with_body(toks, h, b) ==
    IF b.err # NoError THEN b
    ELSE html_closed(h, b, expect_close_tag_with_name(toks, b.pos, "html"))

html_with_head(toks, h) ==
    IF h.err # NoError THEN h
    ELSE html_with_body(toks, h, body(toks, h.pos))

html_opened(toks, open_tag) ==
    IF open_tag.err # NoError
    THEN ParseFailed(open_tag.err, open_tag.pos)
    ELSE html_with_head(toks, head(toks, open_tag.pos))

html(toks, i) == html_opened(toks, expect_open_tag_with_name(toks, i, "html"))

\* parse, were the tokens left behind the root element an error
parse_to_the_end(toks) ==
    IF html(toks, 1).err = NoError /\ html(toks, 1).pos <= Len(toks)
    THEN ParseFailed(ParseUnexpectedToken, html(toks, 1).pos + 1)
    ELSE html(toks, 1)

parse(toks) == html(toks, 1)

(***************************************************************************)
(* restruct.rs                                                             *)
(***************************************************************************)
RECURSIVE Flatten(_)
Flatten(seqs) ==
    IF seqs = <<>> THEN <<>> ELSE Head(seqs) \o Flatten(Tail(seqs))

\* collect_tr_nodes, were it to look no deeper than the node it is given
direct_tr_nodes(n) ==
    IF n.type = "Element" /\ n.tag = "tr" THEN <<n>> ELSE <<>>

RECURSIVE collect_tr_nodes(_)
collect_tr_nodes(n) ==
    IF n.type = "Element"
    THEN IF n.tag = "tr"
         THEN <<n>>
         ELSE Flatten([i \in 1..Len(n.children) |-> collect_tr_nodes(n.children[i])])
    ELSE <<>>

restruct_table_element(element) ==
    LET tr_nodes ==
            Flatten([i \in 1..Len(element.children) |-> collect_tr_nodes(element.children[i])])
    IN  IF Len(tr_nodes) = 0
        THEN Node_Element("table", element.attributes, <<>>)
        ELSE Node_Element("table", element.attributes,
                 << Node_Element("thead", AttributeMap_new, <<tr_nodes[1]>>),
                    Node_Element("tbody", AttributeMap_new, Tail(tr_nodes)) >>)

RECURSIVE restruct(_)

restruct_text(content) == Node_Text(content)

restruct_arbitrary_element(element) ==
    Node_Element(element.tag, element.attributes,
                 [i \in 1..Len(element.children) |-> restruct(element.children[i])])

restruct_element(element) ==
    IF element.tag = "table"
    THEN restruct_table_element(element)
    ELSE restruct_arbitrary_element(element)

restruct(n) ==
    IF n.type = "Element" THEN restruct_element(n) ELSE restruct_text(n.content)

(***************************************************************************)
(* render.rs.  Every rendering operator takes the context stack ctx (the   *)
(* tags Context.items holds) and returns the stack it leaves behind, the   *)
(* rendered string and the error, if any.  A panic (unreachable!, an index *)
(* out of bounds) unwinds without running the pops.                        *)
(***************************************************************************)
OutsideOfList == <<"RenderError", "OutsideOfList">>

PanicUnreachable == <<"panic", "unreachable">>

PanicIndexOutOfBounds == <<"panic", "index out of bounds">>

is_block_element(tag_name) ==
    tag_name \in {"address", "article", "aside", "blockquote", "canvas", "dd", "div",
                  "dl", "dt", "fieldset", "figcaption", "figure", "footer", "form",
                  "h1", "h2", "h3", "h4", "h5", "h6", "header", "hr", "li", "main",
                  "nav", "noscript", "ol", "p", "pre", "section", "table", "tfoot",
                  "ul", "video", "html2md:successive-lists-wrapper"}

Context_push(ctx, tag) == Append(ctx, tag)

Context_pop(ctx) == IF ctx = <<>> THEN ctx ELSE SubSeq(ctx, 1, Len(ctx) - 1)

\* the last "ul" or "ol" of the stack, "" when there is none (None)
Context_get_last_list_tag(ctx) ==
    LET lists == {i \in 1..Len(ctx) : ctx[i] = "ul" \/ ctx[i] = "ol"}
    IN  IF lists = {} THEN ""
        ELSE ctx[CHOOSE i \in lists : \A j \in lists : j <= i]

ends_with(s, c) == Len(s) > 0 /\ s[Len(s)] = c

\* str::lines: the lines between "\n" (a "\r" before it is dropped); a final
\* empty line is not a line
RECURSIVE lines_from(_, _, _, _)
lines_from(s, i, cur, acc) ==
    IF i > Len(s) THEN (IF cur = <<>> THEN acc ELSE Append(acc, cur))
    ELSE IF s[i] = "\n"
    THEN lines_from(s, i + 1, <<>>,
                    Append(acc, IF ends_with(cur, "\r")
                                THEN SubSeq(cur, 1, Len(cur) - 1) ELSE cur))
    ELSE lines_from(s, i + 1, Append(cur, s[i]), acc)

lines(s) == lines_from(s, 1, <<>>, <<>>)

RECURSIVE join(_, _)
join(parts, sep) ==
    IF parts = <<>> THEN <<>>
    ELSE IF Len(parts) = 1 THEN parts[1]
    ELSE parts[1] \o sep \o join(Tail(parts), sep)

wrap(content, prefix, suffix) == prefix \o content \o suffix

spaces(len) == [i \in 1..len |-> " "]

\* prepend_list_marker with the marker and nothing before the other lines
prepend_list_marker_unaligned(marker, content) ==
    LET ls == lines(content)
    IN  join([i \in 1..Len(ls) |-> (IF i = 1 THEN marker \o <<" ">> ELSE <<>>) \o ls[i]],
             <<"\n">>)

prepend_list_marker(marker, content) ==
    LET ls == lines(content)
        sp == spaces(Len(marker))
    IN  join([i \in 1..Len(ls) |-> (IF i = 1 THEN marker ELSE sp) \o <<" ">> \o ls[i]],
             <<"\n">>)

\* the characters of a tag name that render_element_in_html_form writes out
TagChars(tag) ==
    CASE tag = "a" -> <<"a">>
      [] tag = "img" -> <<"i", "m", "g">>
      [] OTHER -> <<tag>>

\* the order of char: the characters of the model by increasing code point
CharOrder ==
    <<"\t", "\n", "\f", "\r", " ", "!", "\"", "#", "-", "/",
      "0", "1", "2", "3", "4", "5", "6", "7", "8", "9", "<", "=", ">">>
        \o UpperCase \o <<"_">> \o LowerCase

CharCode(c) == CHOOSE i \in 1..Len(CharOrder) : CharOrder[i] = c

\* String's Ord: lexicographic by character
RECURSIVE str_less(_, _)
str_less(a, b) ==
    IF b = <<>> THEN FALSE
    ELSE IF a = <<>> THEN TRUE
    ELSE IF a[1] = b[1] THEN str_less(Tail(a), Tail(b))
    ELSE CharCode(a[1]) < CharCode(b[1])

\* the names by decreasing order
RECURSIVE names_descending(_)
names_descending(names) ==
    IF names = {} THEN <<>>
    ELSE LET greatest == CHOOSE n \in names : \A m \in names \ {n} : str_less(m, n)
         IN  <<greatest>> \o names_descending(names \ {greatest})

\* names.sort()
RECURSIVE sorted_names(_)
sorted_names(names) ==
    IF names = {} THEN <<>>
    ELSE LET least == CHOOSE n \in names : \A m \in names \ {n} : str_less(n, m)
         IN  <<least>> \o sorted_names(names \ {least})

open_tag_of(element) ==
    LET names == sorted_names(DOMAIN element.attributes)
    IN  <<"<">> \o TagChars(element.tag)
            \o Flatten([i \in 1..Len(names) |->
                   <<" ">> \o names[i] \o <<"=", "\"">>
                        \o element.attributes[names[i]] \o <<"\"">>])
            \o <<">">>

ChildrenTags ==
    {"abbr", "address", "article", "aside", "b", "bdi", "bdo", "cite", "data", "dd",
     "details", "dfn", "div", "dl", "dt", "i", "ins", "kbd", "main", "mark", "menu",
     "nav", "pre", "q", "ruby", "s", "samp", "section", "small", "span", "sub",
     "summary", "sup", "time", "u", "var", "wbr"}

NothingTags ==
    {"rp", "rt", "caption", "colgroup", "col", "tfoot",
     "area", "audio", "button", "canvas", "datalist", "dialog", "embed", "fieldset",
     "figcaption", "figure", "footer", "form", "header", "hgroup", "iframe", "input",
     "label", "legend", "map", "meter", "noscript", "object", "optgroup", "option",
     "output", "picture", "progress", "script", "search", "select", "slot", "source",
     "template", "textarea", "track", "video"}

\* the character U+0060, which a TLA+ string cannot hold
Backquote == "U+0060"

Rendered(ctx, out) == [err |-> NoError, out |-> out, ctx |-> ctx]

Failed(ctx, err) == [err |-> err, out |-> <<>>, ctx |-> ctx]

\* render_container_element with a new paragraph at every block child
RECURSIVE container_parts_eager(_, _, _, _, _)
container_parts_eager(children, contents, i, parts, part) ==
    IF i > Len(children) THEN Append(parts, part)
    ELSE IF children[i].type = "Element" /\ is_block_element(children[i].tag)
    THEN container_parts_eager(children, contents, i + 1, Append(parts, part), contents[i])
    ELSE container_parts_eager(children, contents, i + 1, parts, part \o contents[i])

\* the paragraphs of render_container_element, from the children and their contents
RECURSIVE container_parts(_, _, _, _, _)
container_parts(children, contents, i, parts, part) ==
    IF i > Len(children) THEN Append(parts, part)
    ELSE IF children[i].type = "Element"
              /\ is_block_element(children[i].tag) /\ Len(part) > 0
    THEN container_parts(children, contents, i + 1, Append(parts, part), contents[i])
    ELSE container_parts(children, contents, i + 1, parts, part \o contents[i])

\* render_tr_element with as many rows as the shortest cell has lines
tr_rows_of_shortest(cells) ==
    LET cell_lines == [c \in 1..Len(cells) |-> lines(cells[c])]
        numcols == Len(cells)
        counts  == {Len(cell_lines[c]) : c \in 1..numcols}
        numrows == IF counts = {} THEN 0
                   ELSE CHOOSE n \in counts : \A m \in counts : n <= m
    IN  [r \in 1..numrows |->
            <<"|", " ">>
                \o join([c \in 1..numcols |-> cell_lines[c][r]], <<" ", "|", " ">>)
                \o <<" ", "|">>]

\* the rows of render_tr_element, from the rendered cells
tr_rows(cells) ==
    LET cell_lines == [c \in 1..Len(cells) |-> lines(cells[c])]
        numcols == Len(cells)
        counts  == {Len(cell_lines[c]) : c \in 1..numcols}
        numrows == IF counts = {} THEN 0
                   ELSE CHOOSE n \in counts : \A m \in counts : m <= n
    IN  [r \in 1..numrows |->
            <<"|", " ">>
                \o join([c \in 1..numcols |->
                            IF r <= Len(cell_lines[c]) THEN cell_lines[c][r] ELSE <<>>],
                        <<" ", "|", " ">>)
                \o <<" ", "|">>]

\* render_table_separator_with_tr_node for a row of one cell, whatever the row
render_table_separator_of_one_cell(ctx, n) ==
    IF n.type # "Element" THEN Failed(ctx, PanicUnreachable)
    ELSE IF n.tag # "tr" THEN Failed(ctx, PanicUnreachable)
    ELSE Rendered(ctx, <<"|", "-", "-", "-", "|">>)

render_table_separator_with_tr_node(ctx, n) ==
    IF n.type # "Element" THEN Failed(ctx, PanicUnreachable)
    ELSE IF n.tag # "tr" THEN Failed(ctx, PanicUnreachable)
    ELSE Rendered(ctx, Flatten([i \in 1..Len(n.children) |-> <<"|", "-", "-", "-">>])
                           \o <<"|">>)

render_text(ctx, content) == Rendered(ctx, content)

RECURSIVE render_node(_, _, _)
RECURSIVE render_element(_, _)
RECURSIVE render_contents_from(_, _, _, _)

\* the loop shared by render_children, render_ctxed_children,
\* render_container_element and render_tr_element: render_node(&element.tag, child)?
\* for each child in turn, collecting the contents
contents_push(element, i, contents, c) ==
    IF c.err # NoError
    THEN [err |-> c.err, contents |-> contents, ctx |-> c.ctx]
    ELSE render_contents_from(c.ctx, element, i + 1, Append(contents, c.out))

render_contents_from(ctx, element, i, contents) ==
    IF i > Len(element.children)
    THEN [err |-> NoError, contents |-> contents, ctx |-> ctx]
    ELSE contents_push(element, i, contents,
                       render_node(ctx, element.tag, element.children[i]))

render_contents(ctx, element) == render_contents_from(ctx, element, 1, <<>>)

\* parts.push_str(&content) for every content
contents_concat(r) ==
    IF r.err # NoError THEN Failed(r.ctx, r.err)
    ELSE Rendered(r.ctx, Flatten(r.contents))

render_children(ctx, element) == contents_concat(render_contents(ctx, element))

\* parts.join("\n")
contents_join(r) ==
    IF r.err # NoError THEN Failed(r.ctx, r.err)
    ELSE Rendered(r.ctx, join(r.contents, <<"\n">>))

render_ctxed_children(ctx, element) == contents_join(render_contents(ctx, element))

\* parts.join("\n\n"), a new part at every block element
contents_container(element, r) ==
    IF r.err # NoError THEN Failed(r.ctx, r.err)
    ELSE Rendered(r.ctx,
             join(container_parts(element.children, r.contents, 1, <<>>, <<>>),
                  <<"\n", "\n">>))

render_container_element(ctx, element) ==
    contents_container(element, render_contents(ctx, element))

\* render_nothing with the children rendered and their contents dropped
render_nothing_of_children(ctx, element) ==
    IF render_children(ctx, element).err # NoError
    THEN render_children(ctx, element)
    ELSE Rendered(ctx, <<>>)

render_nothing(ctx, element) == Rendered(ctx, <<>>)

render_unsupported_element(ctx, element) == render_nothing(ctx, element)

\* Ok(wrap(&content, prefix, suffix))
wrapped(r, prefix, suffix) ==
    IF r.err # NoError THEN r ELSE Rendered(r.ctx, wrap(r.out, prefix, suffix))

render_wrapped(ctx, element, prefix, suffix) ==
    wrapped(render_children(ctx, element), prefix, suffix)

render_element_in_html_form(ctx, element) ==
    IF is_void_element(element.tag)
    THEN Rendered(ctx, open_tag_of(element))
    ELSE render_wrapped(ctx, element, open_tag_of(element),
                        <<"<", "/">> \o TagChars(element.tag) \o <<">">>)

\* render_a_element once `let content = self.render_children(element)?`
\* render_a_element with the href looked at before the name
a_element_href_first(element, content) ==
    IF content.err # NoError THEN content
    ELSE IF <<"h", "r", "e", "f">> \in DOMAIN element.attributes
    THEN Rendered(content.ctx,
                  <<"[">> \o content.out \o <<"]", "(">>
                      \o element.attributes[<<"h", "r", "e", "f">>] \o <<")">>)
    ELSE IF <<"n", "a", "m", "e">> \in DOMAIN element.attributes
    THEN render_element_in_html_form(content.ctx, element)
    ELSE content

a_element_with_content(element, content) ==
    IF content.err # NoError THEN content
    ELSE IF <<"n", "a", "m", "e">> \in DOMAIN element.attributes
    THEN render_element_in_html_form(content.ctx, element)
    ELSE IF <<"h", "r", "e", "f">> \in DOMAIN element.attributes
    THEN Rendered(content.ctx,
                  <<"[">> \o content.out \o <<"]", "(">>
                      \o element.attributes[<<"h", "r", "e", "f">>] \o <<")">>)
    ELSE content

render_a_element(ctx, element) ==
    a_element_with_content(element, render_children(ctx, element))

\* "> " before every line
quoted(ls) == join([i \in 1..Len(ls) |-> <<">", " ">> \o ls[i]], <<"\n">>)

blockquote_with_content(content) ==
    IF content.err # NoError THEN content
    ELSE Rendered(content.ctx, quoted(lines(content.out)))

render_blockquote_element(ctx, element) ==
    blockquote_with_content(render_container_element(ctx, element))

\* the first child that is a body element, 0 when there is none
first_body(children) ==
    IF \E i \in 1..Len(children) :
          children[i].type = "Element" /\ children[i].tag = "body"
    THEN CHOOSE i \in 1..Len(children) :
            /\ children[i].type = "Element" /\ children[i].tag = "body"
            /\ \A j \in 1..(i - 1) :
                  ~(children[j].type = "Element" /\ children[j].tag = "body")
    ELSE 0

render_html_element(ctx, element) ==
    IF first_body(element.children) # 0
    THEN render_node(ctx, element.tag, element.children[first_body(element.children)])
    ELSE Failed(ctx, PanicUnreachable)

li_with_content(marker, content) ==
    IF content.err # NoError THEN content
    ELSE Rendered(content.ctx, prepend_list_marker(marker, content.out))

\* render_li_element with a list item outside of a list taken as one of a "ul"
li_in_any(ctx, element, last) ==
    li_with_content(IF last = "ol" THEN <<"1", ".">> ELSE <<"-">>,
                    render_container_element(ctx, element))

li_in_list(ctx, element, last) ==
    IF last = "ul"
    THEN li_with_content(<<"-">>, render_container_element(ctx, element))
    ELSE IF last = "ol"
    THEN li_with_content(<<"1", ".">>, render_container_element(ctx, element))
    ELSE Failed(ctx, OutsideOfList)

render_li_element(ctx, element) ==
    li_in_list(ctx, element, Context_get_last_list_tag(ctx))

thead_with_separator(tr, separator) ==
    IF separator.err # NoError THEN separator
    ELSE Rendered(separator.ctx, join(<<tr.out, separator.out>>, <<"\n">>))

\* render_thead_element once `let tr = self.render_children(element)?`
thead_with_tr(element, tr) ==
    IF tr.err # NoError THEN tr
    ELSE IF Len(element.children) = 0 THEN Failed(tr.ctx, PanicIndexOutOfBounds)
    ELSE thead_with_separator(tr,
             render_table_separator_with_tr_node(tr.ctx, element.children[1]))

render_thead_element(ctx, element) ==
    thead_with_tr(element, render_children(ctx, element))

tr_with_cells(cells) ==
    IF cells.err # NoError THEN Failed(cells.ctx, cells.err)
    ELSE Rendered(cells.ctx, join(tr_rows(cells.contents), <<"\n">>))

render_tr_element(ctx, element) == tr_with_cells(render_contents(ctx, element))

Hashes(n) == [i \in 1..n |-> "#"] \o <<" ">>

render_element(ctx, element) ==
    CASE element.tag = "a" -> render_a_element(ctx, element)
      [] element.tag \in ChildrenTags -> render_children(ctx, element)
      [] element.tag = "blockquote" -> render_blockquote_element(ctx, element)
      [] element.tag \in {"body", "th", "td"} -> render_container_element(ctx, element)
      [] element.tag = "br" -> Rendered(ctx, <<"\n">>)
      [] element.tag = "code" -> render_wrapped(ctx, element, <<Backquote>>, <<Backquote>>)
      [] element.tag = "del" -> render_wrapped(ctx, element, <<"~">>, <<"~">>)
      [] element.tag = "em" -> render_wrapped(ctx, element, <<"_">>, <<"_">>)
      [] element.tag = "strong" -> render_wrapped(ctx, element, <<"*", "*">>, <<"*", "*">>)
      [] element.tag = "h1" -> render_wrapped(ctx, element, Hashes(1), <<>>)
      [] element.tag = "h2" -> render_wrapped(ctx, element, Hashes(2), <<>>)
      [] element.tag = "h3" -> render_wrapped(ctx, element, Hashes(3), <<>>)
      [] element.tag = "h4" -> render_wrapped(ctx, element, Hashes(4), <<>>)
      [] element.tag = "h5" -> render_wrapped(ctx, element, Hashes(5), <<>>)
      [] element.tag = "h6" -> render_wrapped(ctx, element, Hashes(6), <<>>)
      [] element.tag = "hr" -> Rendered(ctx, <<"-", "-", "-">>)
      [] element.tag = "html" -> render_html_element(ctx, element)
      [] element.tag = "img" -> render_element_in_html_form(ctx, element)
      [] element.tag = "li" -> render_li_element(ctx, element)
      [] element.tag = "p" -> render_wrapped(ctx, element, <<>>, <<>>)
      [] element.tag \in {"ol", "ul", "table", "tbody"} -> render_ctxed_children(ctx, element)
      [] element.tag = "thead" -> render_thead_element(ctx, element)
      [] element.tag = "tr" -> render_tr_element(ctx, element)
      [] element.tag \in NothingTags -> render_nothing(ctx, element)
      [] OTHER -> render_unsupported_element(ctx, element)

\* render_node, were it to return an Err before self.ctx.pop()
node_rendered_if_ok(result) ==
    IF result.err # NoError
    THEN result
    ELSE [result EXCEPT !.ctx = Context_pop(result.ctx)]

\* self.ctx.pop() and the result; a panic unwinds past the pop
node_rendered(result) ==
    IF result.err # NoError /\ result.err[1] = "panic"
    THEN result
    ELSE [result EXCEPT !.ctx = Context_pop(result.ctx)]

render_node(ctx, parent_tag, n) ==
    node_rendered(IF n.type = "Element"
                  THEN render_element(Context_push(ctx, parent_tag), n)
                  ELSE render_text(Context_push(ctx, parent_tag), n.content))

\* render, without the final push_str("\n")
without_final_newline(result) == result

\* push_str("\n") unless the content ends with one already
with_final_newline(result) ==
    IF result.err # NoError THEN result
    ELSE IF ~ends_with(result.out, "\n")
    THEN Rendered(result.ctx, result.out \o <<"\n">>)
    ELSE result

\* Renderer::new(root).render(): the context starts empty
render(root) == with_final_newline(render_node(<<>>, "", root))

(***************************************************************************)
(* The inputs: every string of at most MaxLen characters over Alphabet,    *)
(* and the documents of the tests of main.rs with a short body.            *)
(***************************************************************************)
Alphabet == {"<", ">", "/", "!", "=", "\"", " ", "b", "r", "B"}

RECURSIVE StringsUpTo(_, _)
StringsUpTo(A, n) ==
    IF n = 0 THEN {<<>>}
    ELSE LET S == StringsUpTo(A, n - 1)
         IN  S \cup {Append(s, c) : s \in {t \in S : Len(t) = n - 1}, c \in A}

OpenTag(n) == <<"<">> \o n \o <<">">>

CloseTag(n) == <<"<", "/">> \o n \o <<">">>

HtmlStr == <<"h", "t", "m", "l">>

HeadStr == <<"h", "e", "a", "d">>

BodyStr == <<"b", "o", "d", "y">>

HelloStr == <<"h", "e", "l", "l", "o">>

Document(content) ==
    OpenTag(HtmlStr) \o OpenTag(HeadStr) \o CloseTag(HeadStr)
        \o OpenTag(BodyStr) \o content \o CloseTag(BodyStr) \o CloseTag(HtmlStr)

\* test_convert_only_body
OnlyBody == OpenTag(BodyStr) \o HelloStr \o CloseTag(BodyStr)

MaxBody == 2

BodyAlphabet == {"<", ">", "/", "b", "r", "\n"}

\* one tag, well terminated: the slashes, the names and the attributes of the
\* tests of tokenize.rs, with or without a text after the tag
TagNames == {<<"b">>, <<"B", "R">>, <<"b", "r">>, <<"h", "r">>, <<"p">>}

TagTrails ==
    {<<>>, <<"/">>, <<" ", "/">>, <<" ", "a">>, <<" ", "a", "/">>,
     <<" ", "a", "=", "\"", "/", "\"">>, <<" ", "a", "=", "\"", "b", "\"", " ", "/", " ">>}

TagSources ==
    {<<"<">> \o lead \o n \o trail \o <<">">> \o rest :
        lead \in {<<>>, <<"/">>}, n \in TagNames, trail \in TagTrails,
        rest \in {<<>>, <<"x">>}}

Sources(max_len, max_body) ==
    StringsUpTo(Alphabet, max_len)
        \cup {Document(c) : c \in StringsUpTo(BodyAlphabet, max_body) \cup {HelloStr}}
        \cup {OnlyBody}
        \cup TagSources

Idle ==
    /\ pos = 1
    /\ tokens = <<>>
    /\ token_pos = 1
    /\ beginning_with_slash = FALSE
    /\ name = ""
    /\ attributes = AttributeMap_new
    /\ error = NoError
    /\ context = <<>>
    /\ markdown = <<>>
    /\ depth = 0

Init ==
    /\ source \in Sources(MaxLen, MaxBody)
    /\ Idle
    /\ original_node = NoNode
    /\ node = NoNode
    /\ pc = "tokenize"

(***************************************************************************)
(* One iteration of the loop of Tokenizer::tokenize, up to the point where *)
(* read_tag enters read_attributes.                                        *)
(***************************************************************************)
LeaveTag ==
    /\ beginning_with_slash' = FALSE
    /\ name' = ""
    /\ attributes' = AttributeMap_new

ApplyMatch(m, p) ==
    /\ pos' = p
    /\ tokens' = m.tokens
    /\ error' = m.err
    /\ pc' = IF m.next = "continue" THEN "tokenize" ELSE "done"
    /\ LeaveTag
    /\ UNCHANGED <<source, token_pos, original_node, node, context, markdown, depth>>

ReadToken ==
    /\ pc = "tokenize"
    /\ LET p1 == skip_whitespaces(source, pos)
       IN  IF is_eof(source, p1)
           THEN \* break; Ok(tokens)
                /\ pos' = p1
                /\ pc' = "parse"
                /\ UNCHANGED <<source, tokens, token_pos, beginning_with_slash, name,
                               attributes, error, original_node, node, context, markdown,
                               depth>>
           ELSE IF consume_char(source, p1, "<")
           THEN IF consume_char(source, p1 + 1, "!")
                THEN LET r == read_sgml(source, p1 + 2)
                     IN  ApplyMatch(tokenize_match(tokens, [err |-> r.err, token |-> Token_Sgml]),
                                    r.pos)
                ELSE LET b  == consume_char(source, p1 + 1, "/")
                         n  == read_tag_name(source, IF b THEN p1 + 2 ELSE p1 + 1)
                     IN  IF n.err # NoError
                         THEN ApplyMatch(tokenize_match(tokens, [err |-> n.err, token |-> Token_Sgml]),
                                         n.pos)
                         ELSE /\ pc' = "read_attributes"
                              /\ pos' = n.pos
                              /\ beginning_with_slash' = b
                              /\ name' = n.name
                              /\ attributes' = AttributeMap_new
                              /\ UNCHANGED <<source, tokens, token_pos, error, original_node, node,
                                             context, markdown, depth>>
           ELSE LET r == read_text(source, p1)
                IN  ApplyMatch(tokenize_match(tokens, [err |-> NoError, token |-> r.token]), r.pos)

(***************************************************************************)
(* One iteration of the loop of read_attributes; the iteration that leaves *)
(* the loop also runs the rest of read_tag and the match of tokenize.      *)
(***************************************************************************)
ReadAttribute ==
    /\ pc = "read_attributes"
    /\ LET it == read_attributes_iteration(source, pos, attributes)
       IN  IF it.outcome = "continue"
           THEN /\ pos' = it.pos
                /\ attributes' = it.attributes
                /\ UNCHANGED <<source, pc, tokens, token_pos, beginning_with_slash, name,
                               error, original_node, node, context, markdown, depth>>
           ELSE IF it.outcome = "err"
           THEN ApplyMatch(tokenize_match(tokens, [err |-> it.err, token |-> Token_Sgml]), it.pos)
           ELSE ApplyMatch(tokenize_match(tokens,
                               read_tag_result(name, it.attributes, beginning_with_slash,
                                               it.ending_with_slash)),
                           it.pos)

(***************************************************************************)
(* convert, after tokenize: Parser::new(&tokens).parse()?                  *)
(***************************************************************************)
Parse ==
    /\ pc = "parse"
    /\ \E r \in {parse(tokens)} :
           /\ token_pos' = r.pos
           /\ error' = r.err
           /\ original_node' = r.node
           /\ pc' = IF r.err = NoError THEN "restruct" ELSE "done"
    /\ UNCHANGED <<source, pos, tokens, beginning_with_slash, name, attributes,
                   node, context, markdown, depth>>

(***************************************************************************)
(* convert: restruct::restruct(&original_node)                             *)
(***************************************************************************)
Restruct ==
    /\ pc = "restruct"
    /\ node' = restruct(original_node)
    /\ pc' = "render"
    /\ UNCHANGED <<source, pos, tokens, token_pos, beginning_with_slash, name,
                   attributes, error, original_node, context, markdown, depth>>

(***************************************************************************)
(* convert: render::Renderer::new(&node).render()?                         *)
(***************************************************************************)
Render ==
    /\ pc = "render"
    /\ \E r \in {render(node)} :
           /\ markdown' = r.out
           /\ error' = r.err
           /\ context' = r.ctx
    /\ pc' = "done"
    /\ UNCHANGED <<source, pos, tokens, token_pos, beginning_with_slash, name,
                   attributes, original_node, node, depth>>

Next == ReadToken \/ ReadAttribute \/ Parse \/ Restruct \/ Render

Spec == Init /\ [][Next]_vars

(***************************************************************************)
(* The trees of at most n nodes whose elements are labelled from labels    *)
(* (a tag and an attribute map) and whose text leaves hold one of texts.   *)
(* ForestTable(labels, texts, n)[m + 1] is the set of child sequences of    *)
(* m nodes, for m <= n.                                                    *)
(***************************************************************************)
Label(tag, attrs) == [tag |-> tag, attributes |-> attrs]

\* the forests of m nodes, given tab[k + 1] = the forests of k nodes for k < m
ForestLevel(labels, texts, tab, m) ==
    UNION { {<<Node_Element(l.tag, l.attributes, g)>> \o f :
                 l \in labels, g \in tab[k], f \in tab[m - k + 1]}
            \cup (IF k = 1
                  THEN {<<Node_Text(t)>> \o f : t \in texts, f \in tab[m]}
                  ELSE {})
            : k \in 1..m }

RECURSIVE ForestTable(_, _, _)
ForestTable(labels, texts, n) ==
    IF n = 0 THEN << {<<>>} >>
    ELSE LET tab == ForestTable(labels, texts, n - 1)
         IN  Append(tab, ForestLevel(labels, texts, tab, n))

TreesUpTo(labels, texts, n) ==
    LET tab == ForestTable(labels, texts, n - 1)
    IN  {Node_Element(l.tag, l.attributes, g) :
             l \in labels, g \in UNION {tab[k] : k \in 1..n}}

MaxNodes == 4

ClassX == AttributeMap_insert(AttributeMap_new, <<"c", "l", "a", "s", "s">>, <<"x">>)

RestructLabels ==
    { Label("table", AttributeMap_new), Label("table", ClassX),
      Label("thead", AttributeMap_new), Label("tbody", AttributeMap_new),
      Label("tr", AttributeMap_new), Label("td", AttributeMap_new) }

RestructInputs(n) == TreesUpTo(RestructLabels, {<<"x">>}, n)

InitRestruct ==
    /\ source = <<>>
    /\ Idle
    /\ node = NoNode
    /\ original_node \in RestructInputs(MaxNodes)
    /\ pc = "restruct"

SpecRestruct == InitRestruct /\ [][Restruct]_vars

(***************************************************************************)
(* The renderer alone, on every tree of at most MaxNodes nodes over the    *)
(* labels and texts below.                                                 *)
(***************************************************************************)
RenderLabels ==
    { Label("body", AttributeMap_new), Label("p", AttributeMap_new),
      Label("br", AttributeMap_new), Label("ul", AttributeMap_new),
      Label("li", AttributeMap_new), Label("html", AttributeMap_new) }

RenderInputs(n) == TreesUpTo(RenderLabels, {<<"x">>, <<"x", "\n">>}, n)

InitRender ==
    /\ source = <<>>
    /\ Idle
    /\ original_node = NoNode
    /\ node \in RenderInputs(MaxNodes)
    /\ pc = "render"

SpecRender == InitRender /\ [][Render]_vars

(***************************************************************************)
(* The parser alone, on token sequences: every sequence of at most         *)
(* MaxTokens tokens over InnerTokens, alone and as the content of the body *)
(* of a document, and every truncation of such a document.  The tokenizer  *)
(* never pushes Token::Sgml, so no input holds one.                        *)
(***************************************************************************)
MaxTokens == 4

Open(n) == Token_Tag(n, "Open", AttributeMap_new)

Close(n) == Token_Tag(n, "Close", AttributeMap_new)

InnerTokens ==
    {Open("p"), Close("p"), Open("b"), Close("b"),
     Token_Tag("br", "Void", AttributeMap_new), Token_Text(<<"x">>)}

DocumentTokens(content) ==
    <<Open("html"), Open("head"), Close("head"), Open("body")>>
        \o content \o <<Close("body"), Close("html")>>

ParseInputs(n) ==
    StringsUpTo(InnerTokens, n)
        \cup UNION {{SubSeq(DocumentTokens(c), 1, k) : k \in 0..(Len(c) + 6)} :
                       c \in StringsUpTo(InnerTokens, n)}

InitParse ==
    /\ source = <<>>
    /\ pos = 1
    /\ tokens \in ParseInputs(MaxTokens)
    /\ token_pos = 1
    /\ depth = 0
    /\ beginning_with_slash = FALSE
    /\ name = ""
    /\ attributes = AttributeMap_new
    /\ error = NoError
    /\ context = <<>>
    /\ markdown = <<>>
    /\ original_node = NoNode
    /\ node = NoNode
    /\ pc = "parse"

SpecParse == InitParse /\ [][Parse]_vars

(***************************************************************************)
(* Properties.                                                             *)
(***************************************************************************)
RenderedOk == pc = "done" /\ error = NoError

\* C1, as stated: whenever render returns Ok, the Markdown ends with exactly one
\* newline: its last character is "\n" and the character before it, if any, is not.
C1_ExactlyOneFinalNewline ==
    RenderedOk =>
        /\ ends_with(markdown, "\n")
        /\ Len(markdown) >= 2 => markdown[Len(markdown) - 1] # "\n"

\* C1, amended: whenever render returns Ok, the Markdown is not empty and its last
\* character is "\n"; render appends one only to a content that does not end with one.
C1_FinalNewline ==
    RenderedOk => Len(markdown) >= 1 /\ markdown[Len(markdown)] = "\n"

\* render returned a content that did not end with a newline, with one appended
C1_Witness ==
    /\ RenderedOk
    /\ node = Node_Element("body", AttributeMap_new, <<Node_Text(<<"x">>)>>)
    /\ markdown = <<"x", "\n">>

InLoop(p) == p \in {"tokenize", "read_attributes"}

\* C2, as stated: no iteration of the main loop of tokenize or of the loop of
\* read_attributes ends, with the loops still running, without having consumed a
\* character of the input.
C2_EveryIterationConsumes ==
    [][(InLoop(pc) /\ InLoop(pc')) => pos' > pos]_vars

\* a "<" that no ">" follows
Unterminated(s) ==
    \E i \in 1..Len(s) : s[i] = "<" /\ \A j \in (i + 1)..Len(s) : s[j] # ">"

TokenizeFailed == pc = "done" /\ error # NoError /\ error[1] = "TokenizeError"

\* C3, as stated: when the input ends after a "<" and before the closing ">", tokenize
\* returns UnexpectedEOF and no token sequence.
C3_UnterminatedIsEOF ==
    Unterminated(source) =>
        /\ InLoop(pc) \/ TokenizeFailed
        /\ TokenizeFailed => error = UnexpectedEOF

\* C3, amended: when the input ends after a "<" and before the closing ">", tokenize
\* returns no token sequence; the error it returns is UnexpectedEOF, with the input
\* read to its end, or UnexpectedChar for the character it consumed where the ">"
\* after a "/" or the opening quote of an attribute value had to be.
C3_UnterminatedIsFatal ==
    Unterminated(source) =>
        /\ InLoop(pc) \/ TokenizeFailed
        /\ TokenizeFailed =>
              \/ error = UnexpectedEOF /\ is_eof(source, pos)
              \/ /\ pos - 1 \in 1..Len(source)
                 /\ \E expected \in {">", "\""} \ {source[pos - 1]} :
                        error = UnexpectedChar(expected, source[pos - 1])

\* the input ends after the "/" of a tag, a text token before it: UnexpectedEOF
C3_Witness ==
    /\ Unterminated(source)
    /\ source[Len(source)] = "/"
    /\ Len(tokens) = 1
    /\ TokenizeFailed
    /\ error = UnexpectedEOF

\* read_attributes returns, or fails, for a tag whose name is empty
EmptyTagLeft == pc = "read_attributes" /\ name = "" /\ pc' # "read_attributes"

\* C4, as stated: a tag with an empty name, whatever follows up to its closing ">",
\* never makes tokenize fail: no token is pushed for it and the scan goes on.
C4_EmptyNameNeverFails ==
    [][(EmptyTagLeft /\ \E j \in pos..Len(source) : source[j] = ">")
          => (pc' = "tokenize" /\ error' = NoError /\ tokens' = tokens)]_vars

\* C4, amended: a tag with an empty name never pushes a token; once its attributes are
\* read up to the closing ">" it is skipped and the scan goes on behind that ">",
\* and otherwise reading its attributes fails with UnexpectedEOF or UnexpectedChar.
C4_EmptyNameSkippedOrFatal ==
    [][EmptyTagLeft =>
          /\ tokens' = tokens
          /\ \/ pc' = "tokenize" /\ error' = NoError /\ source[pos' - 1] = ">"
             \/ /\ pc' = "done"
                /\ error' = UnexpectedEOF
                      \/ (error'[1] = "TokenizeError" /\ error'[2] = "UnexpectedChar")]_vars

\* "<>" was skipped and the text behind it is the only token
C4_Witness ==
    /\ Len(source) >= 3
    /\ source[1] = "<" /\ source[2] = ">"
    /\ pc \in {"parse", "done"}
    /\ tokens = <<Token_Text(SubSeq(source, 3, Len(source)))>>

\* C5, as stated: the only error tokenize returns is UnexpectedEOF.
C5_OnlyEOF ==
    TokenizeFailed => error = UnexpectedEOF

\* C5, amended: the errors tokenize returns are UnexpectedEOF and UnexpectedChar, the
\* latter with ">" or the double quote expected; Malformed is never returned.
C5_EOFOrUnexpectedChar ==
    /\ error # Malformed
    /\ TokenizeFailed =>
          \/ error = UnexpectedEOF
          \/ \E c \in Range(source) :
                error \in {UnexpectedChar(">", c), UnexpectedChar("\"", c)}

\* the character after the "/" of a tag was not ">"
C5_Witness ==
    /\ source = <<"<", "b", "/", "b">>
    /\ TokenizeFailed
    /\ error = UnexpectedChar(">", "b")

\* the last character before index close that is no whitespace is "/"
slash_before(s, close) ==
    \E j \in 1..(close - 1) :
        /\ s[j] = "/"
        /\ \A k \in (j + 1)..(close - 1) : is_ascii_whitespace(s[k])

last_token_is(toks, n, kind) ==
    /\ toks[Len(toks)].type = "Tag"
    /\ toks[Len(toks)].name = n
    /\ toks[Len(toks)].kind = kind

\* the index at which the alphanumeric characters that end before index p begin
name_start(s, p) ==
    CHOOSE i \in 1..p :
        /\ \A k \in i..(p - 1) : is_alphanumeric(s[k])
        /\ i = 1 \/ ~is_alphanumeric(s[i - 1])

RECURSIVE concat(_)
concat(chars) == IF chars = <<>> THEN "" ELSE Head(chars) \o concat(Tail(chars))

\* read_tag has read the "<", the "/" if there is one, and the name
TagNameRead ==
    (pc = "tokenize" /\ pc' = "read_attributes") =>
        /\ name' = concat(str_to_lowercase(SubSeq(source, name_start(source, pos'), pos' - 1)))
        /\ beginning_with_slash' = (source[name_start(source, pos') - 1] = "/")

\* read_attributes has consumed the ">" of a tag with a name
TagKindDecided ==
    (pc = "read_attributes" /\ name # "" /\ pc' = "tokenize") =>
        /\ source[pos' - 1] = ">"
        /\ IF is_void_element(name)
           THEN IF beginning_with_slash
                THEN tokens' = tokens
                ELSE /\ Len(tokens') = Len(tokens) + 1
                     /\ last_token_is(tokens', name, "Void")
           ELSE IF slash_before(source, pos' - 1)
                THEN tokens' = tokens
                ELSE /\ Len(tokens') = Len(tokens) + 1
                     /\ last_token_is(tokens', name,
                                      IF beginning_with_slash THEN "Close" ELSE "Open")

VoidIffVoidName(toks) ==
    \A i \in 1..Len(toks) :
        toks[i].type = "Tag" =>
            /\ toks[i].kind \in {"Open", "Close", "Void"}
            /\ toks[i].kind = "Void" <=> is_void_element(toks[i].name)

\* C6: a tag with a name, read up to its ">", gets its kind from the name and the
\* slashes: a void name pushes a Void token with or without a "/" before the ">" and
\* none after a leading "/"; another name pushes Close after a leading "/", Open
\* without a slash, none with a "/" before the ">".  So a Tag token is Void if and
\* only if its name is a void name.
C6_KindFromNameAndSlashes ==
    [][TagNameRead /\ TagKindDecided /\ VoidIffVoidName(tokens')]_vars

\* "<BR />" has become one Void token named br
C6_Witness ==
    /\ source = <<"<", "B", "R", " ", "/", ">">>
    /\ pc \in {"parse", "done"}
    /\ Len(tokens) = 1
    /\ last_token_is(tokens, "br", "Void")

\* what closes the element whose Open token is at the bottom of the stack: the
\* Close tokens are matched with the Open tokens by nesting alone
RECURSIVE scan(_, _, _)
scan(toks, i, stack) ==
    IF i > Len(toks) THEN [result |-> "eof", pos |-> i]
    ELSE IF toks[i].type # "Tag" \/ toks[i].kind = "Void" THEN scan(toks, i + 1, stack)
    ELSE IF toks[i].kind = "Open" THEN scan(toks, i + 1, Append(stack, toks[i].name))
    ELSE IF toks[i].name # stack[Len(stack)] THEN [result |-> "mismatch", pos |-> i + 1]
    ELSE IF Len(stack) = 1 THEN [result |-> "closed", pos |-> i + 1]
    ELSE scan(toks, i + 1, SubSeq(stack, 1, Len(stack) - 1))

BeginsWithOpen(toks) == toks # <<>> /\ toks[1].type = "Tag" /\ toks[1].kind = "Open"

element_agrees(r, s, tag) ==
    /\ s.result = "closed" =>
          r.err = NoError /\ r.pos = s.pos /\ r.node.type = "Element" /\ r.node.tag = tag
    /\ s.result = "mismatch" => r.err = ParseUnexpectedToken /\ r.pos = s.pos
    /\ s.result = "eof" => r.err = ParseUnexpectedEOF

parse_agrees(s) ==
    /\ pc = "restruct" => s.result = "closed" /\ token_pos = s.pos
    /\ (pc = "done" /\ s.result = "mismatch") => error = ParseUnexpectedToken
    /\ (pc = "done" /\ error = ParseUnexpectedEOF) =>
          s.result = "eof" /\ token_pos = Len(tokens) + 1

\* C7: an element that begins with an Open token named T ends at the next Close token
\* of its nesting level: expect_element returns the element when that token is named
\* T, UnexpectedToken when it has another name, UnexpectedEOF when the tokens run out
\* first; and parse returns a tree only for tokens whose Close tokens all have the
\* name of the Open token they close.
C7_CloseMatchesOpen ==
    BeginsWithOpen(tokens) =>
        /\ element_agrees(expect_element(tokens, 1), scan(tokens, 1, <<>>), tokens[1].name)
        /\ parse_agrees(scan(tokens, 1, <<>>))

\* parse has failed on the "</b>" that closes the "<p>" in the body
C7_Witness ==
    /\ tokens = DocumentTokens(<<Open("p"), Token_Text(<<"x">>), Close("b")>>)
    /\ pc = "done"
    /\ error = ParseUnexpectedToken
    /\ token_pos = 8

\* C8, as stated: "<body>hello</body>" converts to "hello\n".
C8_OnlyBodyConverts ==
    (source = OnlyBody /\ pc = "done") =>
        error = NoError /\ markdown = HelloStr \o <<"\n">>

is_tr(n) == n.type = "Element" /\ n.tag = "tr"

\* no children, or a thead with one tr and then a tbody with tr elements only
canonical_children(children) ==
    \/ children = <<>>
    \/ /\ Len(children) = 2
       /\ children[1].type = "Element" /\ children[1].tag = "thead"
       /\ children[1].attributes = AttributeMap_new
       /\ Len(children[1].children) = 1 /\ is_tr(children[1].children[1])
       /\ children[2].type = "Element" /\ children[2].tag = "tbody"
       /\ children[2].attributes = AttributeMap_new
       /\ \A i \in 1..Len(children[2].children) : is_tr(children[2].children[i])

RECURSIVE tables_canonical(_)
tables_canonical(n) ==
    n.type = "Element" =>
        /\ n.tag = "table" => canonical_children(n.children)
        /\ \A i \in 1..Len(n.children) : tables_canonical(n.children[i])

RECURSIVE has_tr(_)
has_tr(n) ==
    n.type = "Element" /\ (n.tag = "tr" \/ \E i \in 1..Len(n.children) : has_tr(n.children[i]))

\* C9, as stated: in the tree restruct returns every table, at any depth, has no
\* children or a thead with one tr followed by a tbody with the other tr elements,
\* and a table at the root has no children exactly when it had no tr below it.
C9_EveryTableCanonical ==
    pc = "render" =>
        /\ tables_canonical(node)
        /\ node.tag = "table" => (node.children = <<>> <=> ~has_tr(original_node))

is_canonical_table(n) ==
    n.type = "Element" /\ n.tag = "table" /\ canonical_children(n.children)

\* C10: restruct(restruct(t)) = restruct(t); a table in the form restruct gives a
\* table is returned as it is, and a table keeps its attributes.
C10_Idempotent ==
    pc = "render" =>
        /\ restruct(node) = node
        /\ is_canonical_table(original_node) => node = original_node
        /\ original_node.tag = "table" => node.attributes = original_node.attributes

\* a table with a class, a thead with its tr and an empty tbody, returned as it is
C10_Witness ==
    /\ pc = "render"
    /\ is_canonical_table(original_node)
    /\ original_node.attributes = ClassX
    /\ Len(original_node.children) = 2
    /\ node = original_node

(***************************************************************************)
(* The restructurer on trees with lists: every tree of at most MaxNodes    *)
(* nodes over the labels below.                                            *)
(***************************************************************************)
ListLabels ==
    { Label("body", AttributeMap_new), Label("p", AttributeMap_new),
      Label("ul", AttributeMap_new), Label("ol", AttributeMap_new),
      Label("li", AttributeMap_new) }

InitRestructLists ==
    /\ source = <<>>
    /\ Idle
    /\ node = NoNode
    /\ original_node \in TreesUpTo(ListLabels, {<<"x">>}, MaxNodes)
    /\ pc = "restruct"

SpecRestructLists == InitRestructLists /\ [][Restruct]_vars

\* Node::is_list_element, Element::is_list_element
is_list_element(n) == n.type = "Element" /\ (n.tag = "ul" \/ n.tag = "ol")

SuccessiveListsWrapper == "html2md:successive-lists-wrapper"

\* no ul or ol is a child of anything but a wrapper
RECURSIVE lists_wrapped(_)
lists_wrapped(n) ==
    n.type = "Element" =>
        /\ \A i \in 1..Len(n.children) :
              is_list_element(n.children[i]) => n.tag = SuccessiveListsWrapper
        /\ \A i \in 1..Len(n.children) : lists_wrapped(n.children[i])

\* C11, as stated: in the tree restruct returns, the ul and ol elements that were
\* consecutive siblings are the children of one successive-lists-wrapper element, a
\* single list too, so no ul or ol is a child of anything but such a wrapper.
C11_ListsWrapped ==
    pc = "render" => lists_wrapped(node)

(***************************************************************************)
(* The renderer on documents with list items inside and outside of lists,  *)
(* below the head, below a script and below the body.                      *)
(***************************************************************************)
ItemLabels ==
    { Label("html", AttributeMap_new), Label("head", AttributeMap_new),
      Label("body", AttributeMap_new), Label("ul", AttributeMap_new),
      Label("li", AttributeMap_new), Label("script", AttributeMap_new) }

InitRenderItems ==
    /\ source = <<>>
    /\ Idle
    /\ original_node = NoNode
    /\ node \in TreesUpTo(ItemLabels, {<<"x">>}, MaxNodes)
    /\ pc = "render"

SpecRenderItems == InitRenderItems /\ [][Render]_vars

\* the tags whose children the renderer renders, all of them
RendersChildren ==
    ChildrenTags \cup
    {"a", "blockquote", "body", "th", "td", "code", "del", "em", "strong",
     "h1", "h2", "h3", "h4", "h5", "h6", "li", "p", "ol", "ul", "table", "tbody",
     "thead", "tr"}

\* some li of the tree has no ul or ol among its ancestors
RECURSIVE has_bare_li(_, _)
has_bare_li(n, in_list) ==
    /\ n.type = "Element"
    /\ \/ n.tag = "li" /\ ~in_list
       \/ \E i \in 1..Len(n.children) :
             has_bare_li(n.children[i], in_list \/ is_list_element(n))

\* some li that the renderer visits has no ul or ol among its ancestors: an html
\* element has its first body rendered and nothing else, and the children of a
\* tag outside of RendersChildren are not rendered
RECURSIVE visits_bare_li(_, _)
visits_bare_li(n, in_list) ==
    /\ n.type = "Element"
    /\ \/ n.tag = "li" /\ ~in_list
       \/ /\ n.tag = "html"
          /\ \E i \in 1..Len(n.children) :
                /\ n.children[i].type = "Element" /\ n.children[i].tag = "body"
                /\ \A j \in 1..(i - 1) :
                      ~(n.children[j].type = "Element" /\ n.children[j].tag = "body")
                /\ visits_bare_li(n.children[i], in_list)
       \/ /\ n.tag \in RendersChildren
          /\ \E i \in 1..Len(n.children) :
                visits_bare_li(n.children[i], in_list \/ is_list_element(n))

MaxListNodes == 5

ClassDepth1 ==
    AttributeMap_insert(AttributeMap_new, <<"c", "l", "a", "s", "s">>, <<"a", "-", "1">>)

ListItemLabels ==
    { Label("ul", AttributeMap_new), Label("ol", AttributeMap_new),
      Label("li", AttributeMap_new) }

\* the trees, and the lists among them with the class on the list
ListInputs(n) ==
    LET trees == TreesUpTo(ListItemLabels, {<<"x", "\n", "y">>}, n)
    IN  trees \cup {[t EXCEPT !.attributes = ClassDepth1] : t \in {u \in trees : is_list_element(u)}}

InitRenderLists ==
    /\ source = <<>>
    /\ Idle
    /\ original_node = NoNode
    /\ node \in ListInputs(MaxListNodes)
    /\ pc = "render"

SpecRenderLists == InitRenderLists /\ [][Render]_vars

starts_with(s, prefix) ==
    Len(s) >= Len(prefix) /\ SubSeq(s, 1, Len(prefix)) = prefix

marker_of(tag) == IF tag = "ol" THEN <<"1", ".">> ELSE <<"-">>

\* the first line starts with the marker and a space, the other lines with
\* spaces in their place
block_aligned(marker, block) ==
    LET ls == lines(block)
    IN  /\ ls # <<>>
        /\ starts_with(ls[1], marker \o <<" ">>)
        /\ \A i \in 2..Len(ls) : starts_with(ls[i], [k \in 1..(Len(marker) + 1) |-> " "])

\* block_aligned for the block of every li of the tree n, which is rendered in the
\* context ctx below a nearest list of tag list_tag
RECURSIVE items_aligned(_, _, _)
items_aligned(ctx, list_tag, n) ==
    n.type = "Element" =>
        /\ (n.tag = "li" /\ list_tag # "") =>
              block_aligned(marker_of(list_tag), render_li_element(ctx, n).out)
        /\ \A i \in 1..Len(n.children) :
              items_aligned(Append(ctx, n.tag),
                            IF is_list_element(n) THEN n.tag ELSE list_tag,
                            n.children[i])

\* an li whose content renders empty has an empty block
RECURSIVE items_aligned_or_empty(_, _, _)
items_aligned_or_empty(ctx, list_tag, n) ==
    n.type = "Element" =>
        /\ (n.tag = "li" /\ list_tag # "") =>
              IF render_container_element(ctx, n).out = <<>>
              THEN render_li_element(ctx, n).out = <<>>
              ELSE block_aligned(marker_of(list_tag), render_li_element(ctx, n).out)
        /\ \A i \in 1..Len(n.children) :
              items_aligned_or_empty(Append(ctx, n.tag),
                                     IF is_list_element(n) THEN n.tag ELSE list_tag,
                                     n.children[i])

\* C13, as stated: the block of every list item starts with the marker of its
\* nearest enclosing list and one space, and each of its other lines starts with
\* as many spaces as the marker is long plus one.
C13_EveryItemAligned ==
    (pc = "done" /\ error = NoError) => items_aligned(<<"">>, "", node)

\* C13, amended: so it is for every list item whose content does not render empty;
\* the block of an item with empty content is empty, without a marker.
C13_NonEmptyItemAligned ==
    (pc = "done" /\ error = NoError) => items_aligned_or_empty(<<"">>, "", node)

C13_Witness ==
    /\ pc = "done"
    /\ node = Node_Element("ul", AttributeMap_new,
                  << Node_Element("li", AttributeMap_new,
                         << Node_Element("ol", AttributeMap_new,
                                << Node_Element("li", AttributeMap_new,
                                       << Node_Text(<<"x", "\n", "y">>) >>) >>) >>) >>)
    /\ markdown = <<"-", " ", "1", ".", " ", "x", "\n", " ", " ", " ", " ", " ", "y", "\n">>

(***************************************************************************)
(* Element::list_depth of ast.rs, which no function of render.rs calls.    *)
(***************************************************************************)
\* str::split: the pieces of s between the occurrences of sep, cur being the piece
\* that is read at position i
RECURSIVE split_from(_, _, _, _, _)
split_from(s, sep, i, cur, acc) ==
    IF i > Len(s) THEN Append(acc, cur)
    ELSE IF s[i] = sep THEN split_from(s, sep, i + 1, <<>>, Append(acc, cur))
    ELSE split_from(s, sep, i + 1, Append(cur, s[i]), acc)

split(s, sep) == split_from(s, sep, 1, <<>>, <<>>)

\* str::trim
RECURSIVE trim(_)
trim(s) ==
    IF s = <<>> THEN s
    ELSE IF is_ascii_whitespace(s[1]) THEN trim(Tail(s))
    ELSE IF is_ascii_whitespace(s[Len(s)]) THEN trim(SubSeq(s, 1, Len(s) - 1))
    ELSE s

css_classes(element) ==
    IF <<"c", "l", "a", "s", "s">> \in DOMAIN element.attributes
    THEN LET pieces == split(element.attributes[<<"c", "l", "a", "s", "s">>], " ")
         IN  [i \in 1..Len(pieces) |-> trim(pieces[i])]
    ELSE <<>>

\* usize::from_str_radix(n, 10) after the sign: the number of the digits n read
\* after acc, or -1 for an Err (acc is -1 when nothing is read yet)
RECURSIVE from_str_radix(_, _)
from_str_radix(n, acc) ==
    IF n = <<>> THEN acc
    ELSE IF n[1] \in Digits
    THEN from_str_radix(Tail(n),
             10 * (IF acc = -1 THEN 0 ELSE acc)
                + (CHOOSE d \in 0..9 :
                      <<"0", "1", "2", "3", "4", "5", "6", "7", "8", "9">>[d + 1] = n[1]))
    ELSE -1

\* list_depth with the first of the classes that have a number, not the last
list_depth_of_first(element) ==
    LET classes == css_classes(element)
        last_piece(class) == split(class, "-")[Len(split(class, "-"))]
        parsed(piece) ==
            IF piece # <<>> /\ piece[1] = "+"
            THEN from_str_radix(Tail(piece), -1)
            ELSE from_str_radix(piece, -1)
        found == {i \in 1..Len(classes) :
                     /\ \E k \in 1..Len(classes[i]) : classes[i][k] = "-"
                     /\ parsed(last_piece(classes[i])) # -1}
    IN  IF found # {}
        THEN parsed(last_piece(classes[CHOOSE i \in found : \A j \in found : i <= j]))
        ELSE 0

list_depth(element) ==
    LET classes == css_classes(element)
        last_piece(class) == split(class, "-")[Len(split(class, "-"))]
        \* a "+" may come before the digits
        parsed(piece) ==
            IF piece # <<>> /\ piece[1] = "+"
            THEN from_str_radix(Tail(piece), -1)
            ELSE from_str_radix(piece, -1)
        found == {i \in 1..Len(classes) :
                     /\ \E k \in 1..Len(classes[i]) : classes[i][k] = "-"
                     /\ parsed(last_piece(classes[i])) # -1}
    IN  IF found # {}
        THEN parsed(last_piece(classes[CHOOSE i \in found : \A j \in found : j <= i]))
        ELSE 0

\* C14, as stated: every line of the block of a list item is indented by four spaces
\* times the depth of its list, the number after the last "-" of the class of the
\* list element: for a list that holds list items only, every line of the output
\* that is not empty starts with that many spaces.
C14_ItemsIndentedByDepth ==
    (/\ pc = "done" /\ error = NoError
     /\ is_list_element(node)
     /\ \A i \in 1..Len(node.children) :
           node.children[i].type = "Element" /\ node.children[i].tag = "li")
    => \A i \in 1..Len(lines(markdown)) :
          lines(markdown)[i] # <<>> =>
              starts_with(lines(markdown)[i], spaces(4 * list_depth(node)))

(***************************************************************************)
(* The renderer on paragraphs: a container, a div, or a list of one item,  *)
(* of at most MaxNodes nodes, with a content over a block child (p), an    *)
(* inline child (b), a container (td) and a text.                          *)
(***************************************************************************)
BlockLabels ==
    { Label("p", AttributeMap_new), Label("b", AttributeMap_new),
      Label("td", AttributeMap_new) }

\* a body, div, blockquote, th or td of less than n nodes over BlockLabels, and
\* a list of one item of as many
BlockInputs(n) ==
    LET tab == ForestTable(BlockLabels, {<<"x">>}, n - 1)
    IN  {Node_Element(tag, AttributeMap_new, children) :
             tag \in {"body", "div", "blockquote", "th", "td"},
             children \in UNION {tab[k] : k \in 1..n}}
        \cup {Node_Element("ul", AttributeMap_new,
                   << Node_Element("li", AttributeMap_new, children) >>) :
                  children \in UNION {tab[k] : k \in 1..(n - 1)}}

InitRenderBlocks ==
    /\ source = <<>>
    /\ Idle
    /\ original_node = NoNode
    /\ node \in BlockInputs(MaxNodes)
    /\ pc = "render"

SpecRenderBlocks == InitRenderBlocks /\ [][Render]_vars

\* C15, as stated: a div is rendered with the paragraphs of a body: the output for
\* a div is the output for a body of the same children.
C15_DivGroupsLikeBody ==
    (pc = "done" /\ error = NoError /\ node.tag = "div")
    => markdown = render(Node_Element("body", node.attributes, node.children)).out

ContainerTags == {"body", "blockquote", "th", "td", "li"}

\* the contents from..to, one after the other
pieces(contents, from, to) ==
    Flatten([k \in 1..(to - from + 1) |-> contents[from + k - 1]])

\* out is the paragraphs of the contents joined by a blank line, where breaks is
\* the set of the children that start a new paragraph: a child starts one exactly
\* when it is a block element and the paragraph read before it is not empty
grouped_by(children, contents, breaks, out) ==
    LET n == Len(children)
        start(i) == IF \E b \in breaks : b <= i
                    THEN CHOOSE b \in breaks : b <= i /\ \A c \in breaks : c <= i => c <= b
                    ELSE 1
        starts == IF n = 0 THEN {} ELSE {1} \cup breaks
        end(s) == IF \E b \in breaks : b > s
                  THEN (CHOOSE b \in breaks : b > s /\ \A c \in breaks : c > s => b <= c) - 1
                  ELSE n
        ordered == [k \in 1..Cardinality(starts) |->
                       CHOOSE s \in starts : Cardinality({t \in starts : t < s}) = k - 1]
    IN  /\ \A i \in 1..n :
              i \in breaks <=>
                  /\ i > 1
                  /\ children[i].type = "Element" /\ is_block_element(children[i].tag)
                  /\ pieces(contents, start(i - 1), i - 1) # <<>>
        /\ out = IF n = 0 THEN <<>>
                 ELSE join([k \in 1..Len(ordered) |->
                               pieces(contents, ordered[k], end(ordered[k]))],
                           <<"\n", "\n">>)

\* every container of the tree n, rendered in the context ctx, has its children
\* grouped into paragraphs
RECURSIVE containers_grouped(_, _)
containers_grouped(ctx, n) ==
    n.type = "Element" =>
        /\ (n.tag \in ContainerTags /\ render_contents(ctx, n).err = NoError) =>
              \E breaks \in SUBSET (1..Len(n.children)) :
                  grouped_by(n.children, render_contents(ctx, n).contents, breaks,
                             render_container_element(ctx, n).out)
        /\ \A i \in 1..Len(n.children) :
              containers_grouped(Append(ctx, n.tag), n.children[i])

\* C16: for body, blockquote, th, td and li the contents of the children are grouped
\* into paragraphs joined by a blank line, and a new paragraph starts exactly when a
\* child that is a block element is reached while the current paragraph is not
\* empty; a text, an inline child, and a block child reached while the paragraph is
\* empty start none.
C16_ParagraphsAtBlockChildren ==
    pc = "done" =>
        /\ containers_grouped(<<"">>, node)
        /\ (error = NoError /\ node.tag \in {"body", "th", "td"}) =>
              markdown = with_final_newline(render_container_element(<<"">>, node)).out

C16_Witness ==
    /\ pc = "done"
    /\ node = Node_Element("body", AttributeMap_new,
                  << Node_Text(<<"x">>),
                     Node_Element("p", AttributeMap_new, << Node_Text(<<"x">>) >>) >>)
    /\ markdown = <<"x", "\n", "\n", "x", "\n">>

(***************************************************************************)
(* The renderer on canonical tables: a thead with its row and a tbody of   *)
(* at most MaxRows rows, every row of at most MaxCols cells, a cell being  *)
(* empty, of one line, or of two lines around a br.                        *)
(***************************************************************************)
MaxCols == 2

MaxRows == 1

CellKinds ==
    { Node_Element("td", AttributeMap_new, <<>>),
      Node_Element("td", AttributeMap_new, << Node_Text(<<"x">>) >>),
      Node_Element("th", AttributeMap_new,
          << Node_Text(<<"x">>), Node_Element("br", AttributeMap_new, <<>>),
             Node_Text(<<"y">>) >>) }

TableRows(cols) ==
    {Node_Element("tr", AttributeMap_new, cells) : cells \in StringsUpTo(CellKinds, cols)}

TableInputs(cols, rows) ==
    {Node_Element("table", AttributeMap_new,
         << Node_Element("thead", AttributeMap_new, <<header>>),
            Node_Element("tbody", AttributeMap_new, body_rows) >>) :
        header \in TableRows(cols), body_rows \in StringsUpTo(TableRows(cols), rows)}

InitRenderTables ==
    /\ source = <<>>
    /\ Idle
    /\ original_node = NoNode
    /\ node \in TableInputs(MaxCols, MaxRows)
    /\ pc = "render"

SpecRenderTables == InitRenderTables /\ [][Render]_vars

\* "|---" k times and "|"
separator_line(k) == [i \in 1..(4 * k + 1) |-> IF i % 4 = 1 THEN "|" ELSE "-"]

\* the lines of the header row of the table t, and of its body rows
header_lines(t) ==
    lines(render_element(<<"", "table", "thead">>, t.children[1].children[1]).out)

body_lines(t) ==
    lines(join([i \in 1..Len(t.children[2].children) |->
                   render_element(<<"", "table", "tbody">>, t.children[2].children[i]).out],
               <<"\n">>))

\* C17: the output for a canonical table whose header row has k cells has exactly
\* one line that is "|---" k times and "|"; the lines before it are the lines of the
\* header row (one empty line when the header row renders empty) and the lines
\* after it are the lines of the body rows.
C17_OneSeparatorBelowHeader ==
    (pc = "done" /\ error = NoError) =>
        LET ls  == lines(markdown)
            sep == separator_line(Len(node.children[1].children[1].children))
            at  == {i \in 1..Len(ls) : ls[i] = sep}
        IN  /\ Cardinality(at) = 1
            /\ \A p \in at :
                  /\ SubSeq(ls, 1, p - 1) =
                         (IF header_lines(node) = <<>> THEN << <<>> >> ELSE header_lines(node))
                  /\ SubSeq(ls, p + 1, Len(ls)) = body_lines(node)

\* a header row of two cells, one of them of two lines, and a body row
C17_Witness ==
    /\ pc = "done"
    /\ Len(node.children[1].children[1].children) = 2
    /\ Len(node.children[2].children) = 1
    /\ lines(markdown) =
           << <<"|", " ", "x", " ", "|", " ", "x", " ", "|">>,
              <<"|", " ", "y", " ", "|", " ", " ", "|">>,
              <<"|", "-", "-", "-", "|", "-", "-", "-", "|">>,
              <<"|", " ", "x", " ", "|">> >>

\* C18, as stated: a br inside a table cell is rendered as the text <br>, so that
\* every tr renders as one line: the output for a row has no line break.
C18_RowIsOneLine ==
    (pc = "done" /\ error = NoError) =>
        /\ "\n" \notin Range(render_element(<<"", "table", "thead">>,
                                            node.children[1].children[1]).out)
        /\ \A i \in 1..Len(node.children[2].children) :
              "\n" \notin Range(render_element(<<"", "table", "tbody">>,
                                               node.children[2].children[i]).out)

(***************************************************************************)
(* The renderer on links and images: an a element with any of the          *)
(* attributes below and a content of less than MaxNodes nodes, and an img  *)
(* with any of the attributes.                                             *)
(***************************************************************************)
AttrName == <<"n", "a", "m", "e">>

AttrHref == <<"h", "r", "e", "f">>

AttrValues ==
    [n \in {AttrName, AttrHref, <<"a", "l", "t">>, <<"s", "r", "c">>} |->
        CASE n = AttrName -> <<"n">>
          [] n = AttrHref -> <<"/", "u">>
          [] n = <<"a", "l", "t">> -> <<"t">>
          [] OTHER -> <<"s">>]

AttributeMaps == {[n \in names |-> AttrValues[n]] : names \in SUBSET DOMAIN AttrValues}

LinkContents(n) ==
    LET tab == ForestTable({Label("b", AttributeMap_new),
                            Label("a", [h \in {AttrHref} |-> AttrValues[h]])},
                           {<<"x">>}, n)
    IN  UNION {tab[k] : k \in 1..(n + 1)}

LinkInputs(n) ==
    {Node_Element("a", attrs, children) :
         attrs \in AttributeMaps, children \in LinkContents(n - 1)}
    \cup {Node_Element("img", attrs, <<>>) : attrs \in AttributeMaps}

InitRenderLinks ==
    /\ source = <<>>
    /\ Idle
    /\ original_node = NoNode
    /\ node \in LinkInputs(MaxNodes)
    /\ pc = "render"

SpecRenderLinks == InitRenderLinks /\ [][Render]_vars

\* the output without its final line break
markdown_line == SubSeq(markdown, 1, Len(markdown) - 1)

\* the orders of the names of an attribute map
orders(attrs) ==
    {s \in [1..Cardinality(DOMAIN attrs) -> DOMAIN attrs] :
        \A i, j \in DOMAIN s : i # j => s[i] # s[j]}

\* out is the tag in HTML form: "<tag", then name="value" after a space for every
\* attribute, the names in ascending order, then ">", and for an element that is
\* not void the content inner and "</tag>"
in_html_form(out, tag_chars, attrs, inner, void) ==
    \E names \in orders(attrs) :
        /\ \A i, j \in DOMAIN names : i < j => str_less(names[i], names[j])
        /\ out = <<"<">> \o tag_chars
                   \o Flatten([i \in DOMAIN names |->
                          <<" ">> \o names[i] \o <<"=", "\"">> \o attrs[names[i]] \o <<"\"">>])
                   \o <<">">>
                   \o (IF void THEN <<>> ELSE inner \o <<"<", "/">> \o tag_chars \o <<">">>)

\* C19: an a element with a name is written as the HTML tag <a ...>text</a>, with
\* or without a href; one without a name and with a href as [text](href); one with
\* neither as its text.
C19_ThreeWayChoice ==
    (pc = "done" /\ node.tag = "a") =>
        /\ error = NoError
        /\ markdown = markdown_line \o <<"\n">>
        /\ LET text == render_children(<<"">>, node).out
           IN  IF AttrName \in DOMAIN node.attributes
               THEN /\ starts_with(markdown_line, <<"<", "a">>)
                    /\ in_html_form(markdown_line, <<"a">>, node.attributes, text, FALSE)
               ELSE IF AttrHref \in DOMAIN node.attributes
               THEN markdown_line =
                        <<"[">> \o text \o <<"]", "(">> \o node.attributes[AttrHref] \o <<")">>
               ELSE markdown_line = text

\* a name and a href, around a text and a link
C19_Witness ==
    /\ pc = "done"
    /\ node.tag = "a"
    /\ DOMAIN node.attributes = {AttrName, AttrHref}
    /\ markdown = <<"<", "a", " ", "h", "r", "e", "f", "=", "\"", "/", "u", "\"", " ",
                    "n", "a", "m", "e", "=", "\"", "n", "\"", ">",
                    "x", "[", "x", "]", "(", "/", "u", ")", "<", "/", "a", ">", "\n">>

\* C20: an element in HTML form, an img or an a with a name, is written as "<tag",
\* every attribute as name="value" after a space in ascending order of the names,
\* and ">"; a void element is this open tag alone, another one has its rendered
\* children and "</tag>" after it.
C20_HtmlFormSortedAttributes ==
    (pc = "done" /\ (node.tag = "img" \/ AttrName \in DOMAIN node.attributes)) =>
        /\ error = NoError
        /\ in_html_form(markdown_line, IF node.tag = "img" THEN <<"i", "m", "g">> ELSE <<"a">>,
                        node.attributes, render_children(<<"">>, node).out,
                        node.tag = "img")

C20_Witness ==
    /\ pc = "done"
    /\ node.tag = "img"
    /\ markdown = <<"<", "i", "m", "g", " ", "a", "l", "t", "=", "\"", "t", "\"", " ",
                    "s", "r", "c", "=", "\"", "s", "\"", ">", "\n">>

\* the tags of the dispatch table of render_element that are rendered
DispatchedTags ==
    RendersChildren \cup {"br", "hr", "html", "img"}

\* the tree n without the descendants of the elements that are rendered as nothing
RECURSIVE pruned(_)
pruned(n) ==
    IF n.type # "Element" THEN n
    ELSE IF n.tag \notin DispatchedTags THEN Node_Element(n.tag, n.attributes, <<>>)
    ELSE Node_Element(n.tag, n.attributes,
                      [i \in 1..Len(n.children) |-> pruned(n.children[i])])

\* every element of the tree n with a tag that is not dispatched is rendered, in
\* its context, as the empty string
RECURSIVE undispatched_empty(_, _)
undispatched_empty(ctx, n) ==
    n.type = "Element" =>
        /\ n.tag \notin DispatchedTags => render_element(ctx, n) = Rendered(ctx, <<>>)
        /\ \A i \in 1..Len(n.children) :
              undispatched_empty(Append(ctx, n.tag), n.children[i])

\* C21: an element with a tag that is suppressed or not in the dispatch table is
\* rendered as the empty string, with Ok, whatever its descendants are; they are
\* not rendered, so the outcome of the rendering of a tree is the outcome for the
\* tree without them.
C21_UndispatchedRendersNothing ==
    pc = "done" =>
        /\ undispatched_empty(<<"">>, node)
        /\ markdown = render(pruned(node)).out
        /\ error = render(pruned(node)).err

\* a text after a head with a list item out of a list, and after a script with an
\* html element without body
C21_Witness ==
    /\ pc = "done"
    /\ \E tag \in {"head", "script"}, inner \in {"li", "html"} :
          node = Node_Element("body", AttributeMap_new,
                     << Node_Element(tag, AttributeMap_new,
                            << Node_Element(inner, AttributeMap_new, <<>>) >>),
                        Node_Text(<<"x">>) >>)
    /\ error = NoError
    /\ markdown = <<"x", "\n">>

(***************************************************************************)
(* entity.rs.  A u32 is the pair <<hi, lo>> of its halves of 16 bits, the  *)
(* value being hi * 65536 + lo; an Err and a None are the empty sequence.  *)
(***************************************************************************)
\* u32::from_str_radix after the sign: the digits of s read after the value acc
RECURSIVE u32_from_digits(_, _, _)
u32_from_digits(s, radix, acc) ==
    IF s = <<>> THEN acc
    ELSE LET digit == IF s[1] \in Digits
                      THEN CHOOSE d \in 0..9 :
                               <<"0", "1", "2", "3", "4", "5", "6", "7", "8", "9">>[d + 1] = s[1]
                      ELSE IF \E i \in 1..26 : LowerCase[i] = s[1] \/ UpperCase[i] = s[1]
                      THEN 9 + (CHOOSE i \in 1..26 : LowerCase[i] = s[1] \/ UpperCase[i] = s[1])
                      ELSE 36
             lo == acc[2] * radix + digit
             hi == acc[1] * radix + lo \div 65536
         IN  IF digit >= radix THEN <<>>              \* InvalidDigit
             ELSE IF hi >= 65536 THEN <<>>            \* PosOverflow
             ELSE u32_from_digits(Tail(s), radix, <<hi, lo % 65536>>)

\* u32::from_str_radix: a "+" may come before the digits, and there is a digit
u32_from_str_radix(s, radix) ==
    IF s = <<>> THEN <<>>
    ELSE IF s[1] = "+"
    THEN (IF Len(s) = 1 THEN <<>> ELSE u32_from_digits(Tail(s), radix, <<0, 0>>))
    ELSE u32_from_digits(s, radix, <<0, 0>>)

\* char::from_u32(code) and to_string: the character as a string, empty for None (a
\* surrogate, or a code above 0x10FFFF); a character that the model has no name
\* for is written "char:" and its code
char_from_u32(code) ==
    LET value == code[1] * 65536 + code[2]
    IN  IF code[1] > 16 THEN <<>>
        ELSE IF code[1] = 0 /\ code[2] >= 55296 /\ code[2] <= 57343 THEN <<>>
        ELSE IF value >= 48 /\ value <= 57
        THEN << <<"0", "1", "2", "3", "4", "5", "6", "7", "8", "9">>[value - 47] >>
        ELSE IF value >= 65 /\ value <= 90 THEN <<UpperCase[value - 64]>>
        ELSE IF value >= 97 /\ value <= 122 THEN <<LowerCase[value - 96]>>
        ELSE IF value = 35 THEN <<"#">>
        ELSE <<"char:" \o ToString(value)>>

translate_hexadecimal_reference(rest) ==
    IF u32_from_str_radix(rest, 16) = <<>> THEN <<>>
    ELSE char_from_u32(u32_from_str_radix(rest, 16))

translate_decimal_reference(rest) ==
    IF u32_from_str_radix(rest, 10) = <<>> THEN <<>>
    ELSE char_from_u32(u32_from_str_radix(rest, 10))

translate_reserved_reference(rest) == <<"&">> \o rest \o <<";">>

\* Translator::new(reference).translate()
translate(reference) ==
    IF reference # <<>> /\ reference[1] = "#"
    THEN IF Len(reference) > 1 /\ (reference[2] = "x" \/ reference[2] = "X")
         THEN translate_hexadecimal_reference(SubSeq(reference, 3, Len(reference)))
         ELSE translate_decimal_reference(Tail(reference))
    ELSE translate_reserved_reference(reference)

(***************************************************************************)
(* The translator alone: a reference is "", "#", "#x" or "#X" and then at  *)
(* most MaxDigits characters of RefAlphabet, or one of the numbers at the  *)
(* ends of the ranges of char and of u32.                                  *)
(***************************************************************************)
MaxDigits == 3

RefAlphabet == {"0", "1", "4", "6", "D", "f", "n", "+"}

RefNumbers ==
    { <<"1", "2", "3", "4">>, <<"D", "7", "F", "F">>, <<"D", "8", "0", "0">>,
      <<"d", "f", "f", "f">>, <<"E", "0", "0", "0">>,
      <<"5", "5", "2", "9", "5">>, <<"5", "5", "2", "9", "6">>,
      <<"5", "7", "3", "4", "3">>, <<"5", "7", "3", "4", "4">>,
      <<"1", "0", "F", "F", "F", "F">>, <<"1", "1", "0", "0", "0", "0">>,
      <<"1", "1", "1", "4", "1", "1", "1">>, <<"1", "1", "1", "4", "1", "1", "2">>,
      <<"F", "F", "F", "F", "F", "F", "F", "F">>,
      <<"1", "0", "0", "0", "0", "0", "0", "0", "0">>,
      <<"4", "2", "9", "4", "9", "6", "7", "2", "9", "5">>,
      <<"4", "2", "9", "4", "9", "6", "7", "2", "9", "6">> }

References(n) ==
    {prefix \o digits :
        prefix \in {<<>>, <<"#">>, <<"#", "x">>, <<"#", "X">>},
        digits \in StringsUpTo(RefAlphabet, n) \cup RefNumbers}

InitTranslate ==
    /\ source \in References(MaxDigits)
    /\ Idle
    /\ original_node = NoNode
    /\ node = NoNode
    /\ pc = "translate"

\* Translator::new(&source).translate(), the result left in markdown
Translate ==
    /\ pc = "translate"
    /\ markdown' = translate(source)
    /\ pc' = "done"
    /\ UNCHANGED <<source, pos, tokens, token_pos, beginning_with_slash, name,
                   attributes, error, original_node, node, context, depth>>

SpecTranslate == InitTranslate /\ [][Translate]_vars

\* the reference is numeric, after "#" or "#x" or "#X", and its digits are not those
\* of a number of 32 bits, or of a number that is not the code of a character
not_a_character(reference) ==
    /\ reference # <<>> /\ reference[1] = "#"
    /\ LET hex == Len(reference) > 1 /\ (reference[2] = "x" \/ reference[2] = "X")
           code == IF hex THEN u32_from_str_radix(SubSeq(reference, 3, Len(reference)), 16)
                   ELSE u32_from_str_radix(Tail(reference), 10)
       IN  code = <<>> \/ char_from_u32(code) = <<>>

\* C25, as stated: a numeric reference whose digits are not a number, or whose
\* value is not a scalar value (a surrogate, or above 0x10FFFF), is left as it is
\* in the output, with its "&#" and its ";".
C25_InvalidReferenceVerbatim ==
    (pc = "done" /\ not_a_character(source))
    => markdown = <<"&">> \o source \o <<";">>

(***************************************************************************)
(* The renderer on texts with a character reference: a body with a text,   *)
(* the text being "a", then "&", a reference and ";", then "b".            *)
(***************************************************************************)
ReferenceText(reference) == <<"a", "&">> \o reference \o <<";", "b">>

InitRenderText ==
    /\ source = <<>>
    /\ Idle
    /\ original_node = NoNode
    /\ node \in {Node_Element("body", AttributeMap_new, << Node_Text(ReferenceText(r)) >>) :
                    r \in References(MaxDigits)}
    /\ pc = "render"

SpecRenderText == InitRenderText /\ [][Render]_vars

\* the reference of the text of the body
reference_of(n) ==
    SubSeq(n.children[1].content, 3, Len(n.children[1].content) - 2)

\* C22, as stated: the rendering of a text decodes the numeric references: a
\* reference in decimal or in hexadecimal that denotes a scalar value is replaced by
\* the character, and a named reference is left as it is.
C22_NumericReferencesDecoded ==
    (pc = "done" /\ ~not_a_character(reference_of(node))) =>
        markdown = <<"a">> \o translate(reference_of(node)) \o <<"b", "\n">>

\* the output for the row tr, rendered in the context ctx, is the matrix of the
\* lines of its cells: as many lines as the tallest cell has, each of them
\* "| c1 | c2 | ... |" with an entry for every cell, empty for a cell that has no
\* such line
row_is_matrix(ctx, tr) ==
    LET numcols == Len(tr.children)
        cell(c) == lines(render_node(ctx, "tr", tr.children[c]).out)
        heights == {Len(cell(c)) : c \in 1..numcols} \cup {0}
        tallest == CHOOSE h \in heights : \A g \in heights : g <= h
        entry(r, c) == IF r <= Len(cell(c)) THEN cell(c)[r] ELSE <<>>
        out == render_element(ctx, tr).out
    IN  /\ Len(lines(out)) = tallest
        /\ out = join(lines(out), <<"\n">>)
        /\ \A r \in 1..tallest :
              /\ lines(out)[r] = <<"|", " ">>
                                    \o join([c \in 1..numcols |-> entry(r, c)], <<" ", "|", " ">>)
                                    \o <<" ", "|">>
              /\ Cardinality({k \in 1..Len(lines(out)[r]) : lines(out)[r][k] = "|"})
                     = numcols + 1

\* C23: render_tr_element lays a row out as a matrix: the row has as many lines as
\* its tallest cell, every line has one column for every cell of the tr, written
\* "| c1 | c2 | ... |", and a cell with fewer lines has an empty entry on the lines
\* that it lacks.
C23_RowIsMatrix ==
    (pc = "done" /\ error = NoError) =>
        /\ row_is_matrix(<<"", "table", "thead">>, node.children[1].children[1])
        /\ \A i \in 1..Len(node.children[2].children) :
              row_is_matrix(<<"", "table", "tbody">>, node.children[2].children[i])

\* a body row of a cell of one line and a cell of two
C23_Witness ==
    /\ pc = "done"
    /\ node.children[1].children[1].children = <<>>
    /\ Len(node.children[2].children) = 1
    /\ markdown = <<"\n", "|", "\n",
                    "|", " ", "x", " ", "|", " ", "x", " ", "|", "\n",
                    "|", " ", " ", "|", " ", "y", " ", "|", "\n">>

\* the tr elements below n that belong to the table above n: those found without
\* going below a tr or into another table, in document order
RECURSIVE own_tr_nodes(_)
own_tr_nodes(n) ==
    IF n.type # "Element" THEN <<>>
    ELSE IF n.tag = "tr" THEN <<n>>
    ELSE IF n.tag = "table" THEN <<>>
    ELSE Flatten([i \in 1..Len(n.children) |-> own_tr_nodes(n.children[i])])

\* the rows of a table in the form that restruct gives it
rows_of(table) ==
    Flatten([i \in 1..Len(table.children) |-> table.children[i].children])

\* C24, as stated: the search for the tr elements of a table does not go into the
\* tables nested in it, so that the rows of the thead and tbody of the table are
\* its own tr elements and never a tr of a nested table.
C24_NoRowFromNestedTable ==
    (pc = "render" /\ original_node.tag = "table") =>
        rows_of(node) =
            Flatten([i \in 1..Len(original_node.children) |->
                        own_tr_nodes(original_node.children[i])])

(***************************************************************************)
(* Element::list_depth alone: an ol without class, and with every class of *)
(* at most MaxClassLen characters of ClassAlphabet.                        *)
(***************************************************************************)
MaxClassLen == 5

ClassAlphabet == {"a", "-", "1", "2", "+", " ", "\t"}

ClassInputs(n) ==
    {Node_Element("ol", AttributeMap_new, <<>>)}
    \cup {Node_Element("ol",
              AttributeMap_insert(AttributeMap_new, <<"c", "l", "a", "s", "s">>, class), <<>>) :
             class \in StringsUpTo(ClassAlphabet, n)}

InitListDepth ==
    /\ source = <<>>
    /\ Idle
    /\ original_node = NoNode
    /\ node \in ClassInputs(MaxClassLen)
    /\ pc = "list_depth"

\* element.list_depth(), as the tests of ast.rs call it
ListDepth ==
    /\ pc = "list_depth"
    /\ depth' = list_depth(node)
    /\ pc' = "done"
    /\ UNCHANGED <<source, pos, tokens, token_pos, beginning_with_slash, name,
                   attributes, error, original_node, node, context, markdown>>

SpecListDepth == InitListDepth /\ [][ListDepth]_vars

\* the number that the characters of s are, -1 when they are not a number: digits,
\* after a "+" or not
number_of(s) ==
    IF s # <<>> /\ s[1] = "+" THEN from_str_radix(Tail(s), -1) ELSE from_str_radix(s, -1)

\* the number after the last hyphen of the token, -1 when the token has no hyphen or
\* no number after the last one
suffix_number(token) ==
    LET hyphens == {k \in 1..Len(token) : token[k] = "-"}
    IN  IF hyphens = {} THEN -1
        ELSE number_of(SubSeq(token,
                              (CHOOSE k \in hyphens : \A h \in hyphens : h <= k) + 1,
                              Len(token)))

\* the depth of the class: the number of the last of its tokens that has one, the
\* tokens being the longest pieces without a space, taken as they are or without
\* the whitespace around them; 0 when no token has a number
depth_of_class(class, trimmed) ==
    LET ends == {j \in 1..Len(class) :
                    class[j] # " " /\ (j = Len(class) \/ class[j + 1] = " ")}
        start(j) == CHOOSE i \in 1..j :
                        /\ \A k \in i..j : class[k] # " "
                        /\ i = 1 \/ class[i - 1] = " "
        token(j) == IF trimmed THEN trim(SubSeq(class, start(j), j))
                    ELSE SubSeq(class, start(j), j)
        numbered == {j \in ends : suffix_number(token(j)) # -1}
    IN  IF numbered = {} THEN 0
        ELSE suffix_number(token(CHOOSE j \in numbered : \A i \in numbered : i <= j))

ClassKey == <<"c", "l", "a", "s", "s">>

\* C26, as stated: list_depth is the number after the last hyphen of the last of
\* the tokens of the class, separated by spaces, that have a number there, and 0
\* when there is no class or no such token.
C26_DepthOfLastNumberedToken ==
    pc = "done" =>
        depth = IF ClassKey \in DOMAIN node.attributes
                THEN depth_of_class(node.attributes[ClassKey], FALSE)
                ELSE 0

\* C26, amended: so it is with every token taken without the whitespace at its
\* ends: a tab or a line break around a token is not a part of it.
C26_DepthOfLastTrimmedToken ==
    pc = "done" =>
        depth = IF ClassKey \in DOMAIN node.attributes
                THEN depth_of_class(node.attributes[ClassKey], TRUE)
                ELSE 0

\* two tokens with a number
C26_Witness ==
    /\ pc = "done"
    /\ ClassKey \in DOMAIN node.attributes
    /\ node.attributes[ClassKey] = <<"-", "1", " ", "-", "2">>
    /\ depth = 2

\* render_node for the node n, at the depth d of the recursion and with the stack
\* ctx, has a stack of d frames, d + 1 frames while n is rendered, and leaves the
\* stack as it found it when it returns, with Ok or with Err; and so it is for
\* the children of n
RECURSIVE stack_balanced(_, _, _, _)
stack_balanced(ctx, d, parent_tag, n) ==
    /\ Len(ctx) = d
    /\ Len(Context_push(ctx, parent_tag)) = d + 1
    /\ render_node(ctx, parent_tag, n).err \in {NoError, OutsideOfList}
          => render_node(ctx, parent_tag, n).ctx = ctx
    /\ n.type = "Element" =>
          \A i \in 1..Len(n.children) :
              stack_balanced(Context_push(ctx, parent_tag), d + 1, n.tag, n.children[i])

\* C27: the context stack is balanced: render_node pushes one frame when it is
\* entered and pops one when it returns, with Err as with Ok, so the depth of the
\* stack is the depth of the recursion, and the stack is empty when render returns.
C27_ContextBalanced ==
    pc = "done" =>
        /\ stack_balanced(<<>>, 0, "", node)
        /\ error \in {NoError, OutsideOfList} => context = <<>>

\* a list item out of a list, after a list that is rendered
C27_Witness ==
    /\ pc = "done"
    /\ node = Node_Element("body", AttributeMap_new,
                  << Node_Element("ul", AttributeMap_new,
                         << Node_Element("li", AttributeMap_new, <<>>) >>),
                     Node_Element("li", AttributeMap_new, <<>>) >>)
    /\ error = OutsideOfList
    /\ context = <<>>

(***************************************************************************)
(* convert on documents whose body holds one element that is usually found *)
(* elsewhere (html, thead, tr, td), with or without an attribute, empty or  *)
(* holding a text or another such element.                                  *)
(***************************************************************************)
PlacedNames == {HtmlStr, <<"t", "h", "e", "a", "d">>, <<"t", "r">>, <<"t", "d">>}

PlacedContents ==
    {<<"<">> \o n \o a \o <<">">> \o c \o CloseTag(n) :
        n \in PlacedNames,
        a \in {<<>>, <<" ", "a">>},
        c \in {<<>>, <<"x">>} \cup {OpenTag(m) \o CloseTag(m) : m \in PlacedNames}}

InitConvert ==
    /\ source \in {Document(c) : c \in PlacedContents}
    /\ Idle
    /\ original_node = NoNode
    /\ node = NoNode
    /\ pc = "tokenize"

SpecConvert == InitConvert /\ [][Next]_vars

\* C28, as stated: for every input on which tokenize and parse succeed, render
\* returns Ok or the error OutsideOfList and never panics, whatever the places of
\* the html, thead and tr elements in the tree.
C28_RenderNeverPanics ==
    pc = "done" => error \notin {PanicUnreachable, PanicIndexOutOfBounds}


\* what the parser reads of a token: its kind and name, or its text
token_shape(t) ==
    IF t.type = "Text" THEN <<"Text", t.content>> ELSE <<t.kind, t.name>>

\* the tokens parse has consumed when it stands before token p
consumed(toks, p) == [i \in 1..(p - 1) |-> token_shape(toks[i])]

\* the tree in pre-order: a text leaf as its Text token, an element with the
\* name of a void element as its Void token, any other element as its Open
\* token, its children and its Close token
RECURSIVE preorder(_)
preorder(n) ==
    IF n.type = "Text" THEN << <<"Text", n.content>> >>
    ELSE IF is_void_element(n.tag) THEN << <<"Void", n.tag>> >>
    ELSE << <<"Open", n.tag>> >>
             \o Flatten([i \in 1..Len(n.children) |-> preorder(n.children[i])])
             \o << <<"Close", n.tag>> >>

\* C29: when parse returns a tree, the tree in pre-order is the sequence of the
\* kinds, names and texts of the tokens parse consumed, in their order, so the
\* children of an element are the tokens between its Open and its Close token.
C29_PreorderIsConsumedTokens ==
    (pc = "restruct" /\ original_node # NoNode) =>
        preorder(original_node) = consumed(tokens, token_pos)

\* a document with an element holding a text, followed by a void element
C29_Witness ==
    /\ pc = "restruct"
    /\ tokens = DocumentTokens(<<Open("p"), Token_Text(<<"x">>), Close("p"),
                                 Token_Tag("br", "Void", AttributeMap_new)>>)
    /\ original_node.children[2].children
           = <<Node_Element("p", AttributeMap_new, <<Node_Text(<<"x">>)>>),
               Node_Element("br", AttributeMap_new, <<>>)>>
    /\ token_pos = 11


(***************************************************************************)
(* The parser on a document followed by more tokens: every document whose  *)
(* body holds at most one token, followed by at most MaxTrailer tokens.    *)
(***************************************************************************)
MaxTrailer == 2

TrailerTokens == InnerTokens \cup {Open("html"), Close("html"), Close("body")}

Trailers(n) == StringsUpTo(TrailerTokens, n)

InitParseTrailing ==
    /\ source = <<>>
    /\ pos = 1
    /\ tokens \in {DocumentTokens(c) \o t :
                      c \in StringsUpTo(InnerTokens, 1), t \in Trailers(MaxTrailer)}
    /\ token_pos = 1
    /\ depth = 0
    /\ beginning_with_slash = FALSE
    /\ name = ""
    /\ attributes = AttributeMap_new
    /\ error = NoError
    /\ context = <<>>
    /\ markdown = <<>>
    /\ original_node = NoNode
    /\ node = NoNode
    /\ pc = "parse"

SpecParseTrailing == InitParseTrailing /\ [][Parse]_vars

\* C30: when parse returns a tree, the tokens behind the Close token of the root
\* element are left unconsumed, and parse returns the same tree, at the same
\* place, for the consumed tokens followed by any other tokens or by none.
C30_TrailingTokensIgnored ==
    (pc = "restruct" /\ error = NoError) =>
        /\ token_pos <= Len(tokens) + 1
        /\ tokens[token_pos - 1] = Close("html")
        /\ \A t \in Trailers(MaxTrailer) :
               parse(SubSeq(tokens, 1, token_pos - 1) \o t)
                   = [err |-> NoError, pos |-> token_pos, node |-> original_node]

\* a document followed by a second Close token of the root and an Open token
C30_Witness ==
    /\ pc = "restruct"
    /\ error = NoError
    /\ tokens = DocumentTokens(<<Token_Text(<<"x">>)>>) \o <<Close("html"), Open("p")>>
    /\ token_pos = 8
    /\ original_node.children[2].children = <<Node_Text(<<"x">>)>>

====
